---- MODULE Spec2Model ----
(***************************************************************************)
(* TFT meta pipeline: the aggregation engine of src/src/aggregate.ts and   *)
(* the resumable batch run of src/src/pipeline.ts.                          *)
(*                                                                         *)
(* Representation.                                                         *)
(*  - A JavaScript string is a sequence of one-character strings, so that  *)
(*    join, split, sort and the regular expression act on characters.      *)
(*  - A value that may be absent (undefined / null) is a sequence of       *)
(*    length 0 (absent) or 1 (present): <<>> or <<x>>.                     *)
(*  - A JavaScript Map is a sequence of [k, v] records in insertion order; *)
(*    a Set is a duplicate-free sequence in insertion order.               *)
(***************************************************************************)
EXTENDS Integers, Sequences, FiniteSets, TLC

VARIABLES
    \* --- arguments and result of aggregateCountsAndCombos (aggregate.ts:80)
    matches,            \* the list of fetched matches
    patchFilter,        \* the patch filter string ("" admits every patch)
    out,                \* <<>> or <<[compBuckets, unitCombos]>>
    \* --- arguments and results of finalizeComps / finalizeUnitCombos
    minPicks,           \* threshold of finalizeComps
    minPicksItemCombo,  \* threshold of finalizeUnitCombos
    topN,               \* cap of finalizeUnitCombos
    rows,               \* <<>> or <<[comps, unit_item_meta]>>
    \* --- three partial states and the results of merging them
    parts,              \* <<A, B, C>>: three lists of matches
    merged,             \* <<>> or <<[ab_c, a_bc, ba_c]>>
    heap,               \* the bucket objects, by object id
    baseRefs,           \* the accumulating maps: key -> object id
    deltaRefs,          \* the maps merged into them: key -> object id
    \* --- argument and result of normalizePatch
    v,                  \* <<>> (absent) or <<string>>
    patchOut,           \* <<>> or <<normalizePatch(v)>>
    \* --- the pipeline run of pipeline.ts main()
    PATCH,              \* env PATCH: the run's target patch
    MIN_PICKS,          \* env MIN_PICKS
    MIN_PICKS_ITEM_COMBO, \* env MIN_PICKS_ITEM_COMBO
    disk,               \* data/meta_<patch>.json per patch, and meta_current.json
    pc,                 \* position of main(): "start", "platforms", "done"
    prev,               \* what loadPrevRaw returned: <<>> or <<RawState>>
    compBuckets,        \* main's accumulating composition map
    unitComboBuckets,   \* main's accumulating unit-combo map
    platformsLeft,      \* platforms of PLATFORMS not yet processed
    runs,               \* completed runs of the pipeline
    fetched,            \* the matches counted so far: cur, those counted into
                        \* main's maps; file[p], those counted into meta_<p>.json
    \* --- the collector run of collector.ts run()
    seen,               \* the in-memory Set of match ids, in insertion order
    lines,              \* the slices queued for the current platform
    matchIds,           \* ids of the current platform not yet handled
    platformIdx,        \* index of the platform being collected
    cpc,                \* position of run(): "load", "fetch", "save", "exit"
    seenFile,           \* data/staging/seen_match_ids.json: <<>> or <<ids>>
    outFile,            \* data/staging/matches_<patch>.jsonl: appended lines
    fetchLog,           \* every getMatch call so far: [id, known]
    collectorRuns,      \* collector runs started so far
    \* --- one call of fetchWithRetry (riot.ts:81)
    tries,              \* the parameter tries
    attempt,            \* the local counter attempt
    responses,          \* statuses of the responses received so far
    sleeps,             \* durations of the sleeps so far, in ms
    outcome             \* "idle", "running", "returned", "thrown"

aggVars  == <<matches, patchFilter, out>>
finVars  == <<minPicks, minPicksItemCombo, topN, rows>>
mrgVars  == <<parts, merged, heap, baseRefs, deltaRefs>>
normVars == <<v, patchOut>>
pipeVars == <<PATCH, MIN_PICKS, MIN_PICKS_ITEM_COMBO, disk, pc, prev,
              compBuckets, unitComboBuckets, platformsLeft, runs, fetched>>
colVars  == <<seen, lines, matchIds, platformIdx, cpc, seenFile, outFile,
              fetchLog, collectorRuns>>
retryVars == <<tries, attempt, responses, sleeps, outcome>>
vars == <<aggVars, finVars, mrgVars, normVars, pipeVars, colVars, retryVars>>

---------------------------------------------------------------------------
(* Bounds of the model.                                                    *)
MaxSlices     == 3   \* matches in one aggregateCountsAndCombos call
MaxScenario   == 5   \* matches in one call over the scenario pool
MaxMergeTotal == 3   \* matches spread over the three partial states
MaxVersionLen == 5   \* characters of a game_version string
MaxThreshold  == 3   \* largest minimum-picks threshold
MinPicksRun   == 2   \* MIN_PICKS and MIN_PICKS_ITEM_COMBO of a pipeline run
MaxPlatforms  == 2   \* platforms of one run
MaxRuns       == 2   \* successive runs of the pipeline
MaxDeltas     == 4   \* partial states merged into one accumulating state
MaxRankBuckets == 22 \* composition buckets in one finalizeComps call
RankPeriod    == 3   \* bucket kinds chosen freely, then repeated

---------------------------------------------------------------------------
(* Strings.                                                                *)

\* UTF-16 code unit of a character, the order of Array.prototype.sort().
CharCode(c) ==
    CASE c = "." -> 46
      [] c = "1" -> 49
      [] c = "3" -> 51
      [] c = "4" -> 52
      [] c = "5" -> 53
      [] c = ":" -> 58
      [] c = "A" -> 65
      [] c = "B" -> 66
      [] c = "a" -> 97
      [] c = "k" -> 107
      [] c = "n" -> 110
      [] c = "o" -> 111
      [] c = "u" -> 117
      [] c = "w" -> 119
      [] c = "x" -> 120
      [] c = "y" -> 121
      [] c = "z" -> 122
      [] c = "|" -> 124

RECURSIVE StrLess(_, _)
\* a < b as JavaScript compares strings: by code unit, a proper prefix first.
StrLess(a, b) ==
    IF a = <<>> THEN b # <<>>
    ELSE IF b = <<>> THEN FALSE
    ELSE IF a[1] = b[1] THEN StrLess(Tail(a), Tail(b))
    ELSE CharCode(a[1]) < CharCode(b[1])

RECURSIVE InsertSorted(_, _)
InsertSorted(x, s) ==
    IF s = <<>> THEN <<x>>
    ELSE IF StrLess(x, s[1]) THEN <<x>> \o s
    ELSE <<s[1]>> \o InsertSorted(x, Tail(s))

RECURSIVE SortStrings(_)
\* arr.sort() with the default comparator (stable).
SortStrings(arr) ==
    IF arr = <<>> THEN <<>>
    ELSE InsertSorted(arr[Len(arr)], SortStrings(SubSeq(arr, 1, Len(arr) - 1)))

RECURSIVE Join(_, _)
\* arr.join(d)
Join(arr, d) ==
    IF arr = <<>> THEN <<>>
    ELSE IF Len(arr) = 1 THEN arr[1]
    ELSE arr[1] \o d \o Join(Tail(arr), d)

RECURSIVE SplitLoop(_, _, _)
SplitLoop(s, d, cur) ==
    IF s = <<>> THEN <<cur>>
    ELSE IF Len(s) >= Len(d) /\ SubSeq(s, 1, Len(d)) = d
         THEN <<cur>> \o SplitLoop(SubSeq(s, Len(d) + 1, Len(s)), d, <<>>)
    ELSE SplitLoop(Tail(s), d, Append(cur, s[1]))

\* s.split(d), d a non-empty delimiter
Split(s, d) == SplitLoop(s, d, <<>>)

RECURSIVE Dedupe(_)
\* [...new Set(arr)]: the first occurrence of each element, in order.
Dedupe(arr) ==
    IF arr = <<>> THEN <<>>
    ELSE LET front == Dedupe(SubSeq(arr, 1, Len(arr) - 1))
             x     == arr[Len(arr)]
         IN  IF \E i \in 1..Len(front) : front[i] = x THEN front
             ELSE Append(front, x)

\* x ?? d
Nullish(x, d) == IF x = <<>> THEN d ELSE x[1]

---------------------------------------------------------------------------
(* Maps.                                                                   *)

MapHas(m, k) == \E i \in 1..Len(m) : m[i].k = k
MapGet(m, k) == m[CHOOSE i \in 1..Len(m) : m[i].k = k].v
\* m.set(k, x): replaces the value in place, or appends a new entry.
MapSet(m, k, x) ==
    IF MapHas(m, k)
    THEN [i \in 1..Len(m) |-> IF m[i].k = k THEN [k |-> k, v |-> x] ELSE m[i]]
    ELSE Append(m, [k |-> k, v |-> x])
MapKeys(m) == {m[i].k : i \in 1..Len(m)}

\* function inc(map, k, v = 1)
inc(map, k, n) == MapSet(map, k, (IF MapHas(map, k) THEN MapGet(map, k) ELSE 0) + n)

---------------------------------------------------------------------------
(* aggregate.ts: keys.                                                     *)

STR_UNKNOWN == <<"u", "n", "k", "n", "o", "w", "n">>

IsDigit(c) == c \in {"1", "3", "4", "5"}

RECURSIVE DigitRunEnd(_, _)
\* Index of the last character of the longest run of digits that starts at
\* s[i]; i - 1 when s[i] is no digit (the greedy \d+).
DigitRunEnd(s, i) ==
    IF i <= Len(s) /\ IsDigit(s[i]) THEN DigitRunEnd(s, i + 1) ELSE i - 1

RECURSIVE MatchFrom(_, _)
\* s.match(/(\d+)\.(\d+)/): the leftmost match, tried from index i on;
\* <<>> for null, else <<[1 |-> group 1, 2 |-> group 2]>>.
MatchFrom(s, i) ==
    IF i > Len(s) THEN <<>>
    ELSE LET j == DigitRunEnd(s, i)
             k == DigitRunEnd(s, j + 2)
         IN  IF j >= i /\ j + 1 <= Len(s) /\ s[j + 1] = "." /\ k >= j + 2
             THEN << <<SubSeq(s, i, j), SubSeq(s, j + 2, k)>> >>
             ELSE MatchFrom(s, i + 1)

\* Mutant of normalizePatch: every string without a match gives "unknown".
normalizePatch_Unknown(ver) ==
    LET m == IF ver = <<>> THEN <<>> ELSE MatchFrom(ver[1], 1)
    IN  IF m # <<>> THEN m[1][1] \o <<".">> \o m[1][2] ELSE STR_UNKNOWN

\* export function normalizePatch(v: string): string
normalizePatch(ver) ==
    LET m == IF ver = <<>> THEN <<>> ELSE MatchFrom(ver[1], 1)
    IN  IF m # <<>> THEN m[1][1] \o <<".">> \o m[1][2]
        ELSE Nullish(ver, STR_UNKNOWN)

\* Mutant of compSignature: the unit tokens are joined in roster order.
compSignature_RosterOrder(units) ==
    Join([i \in 1..Len(units) |->
            units[i].character_id \o <<":">>
                \o Join(SortStrings(units[i].items), <<".">>)],
         <<"|">>)

\* Mutant of compSignature: the sorted set of unit ids, without the items.
compSignature_UnitIdsOnly(units) ==
    Join(SortStrings(Dedupe([i \in 1..Len(units) |-> units[i].character_id])),
         <<"|">>)

\* export function compSignature(units: Unit[]): CompKey
compSignature(units) ==
    Join(SortStrings([i \in 1..Len(units) |->
            units[i].character_id \o <<":">>
                \o Join(SortStrings(units[i].items), <<".">>)]),
         <<"|">>)

\* Mutant of unitSet: the unique ids are left in roster order.
unitSet_Unsorted(units) ==
    Dedupe([i \in 1..Len(units) |-> units[i].character_id])

\* export function unitSet(units: Unit[]): string[]
unitSet(units) ==
    SortStrings(Dedupe([i \in 1..Len(units) |-> units[i].character_id]))

RECURSIVE combosLoop(_, _, _, _)
\* The three nested loops of combosOf3 over the sorted unique items.
combosLoop(uniq, i, j, k) ==
    IF i > Len(uniq) THEN <<>>
    ELSE IF j > Len(uniq) THEN combosLoop(uniq, i + 1, i + 2, i + 3)
    ELSE IF k > Len(uniq) THEN combosLoop(uniq, i, j + 1, j + 2)
    ELSE <<uniq[i] \o <<"|">> \o uniq[j] \o <<"|">> \o uniq[k]>>
            \o combosLoop(uniq, i, j, k + 1)

\* Mutant of combosOf3: the items are sorted but not made unique.
combosOf3_NoSet(items) == combosLoop(SortStrings(items), 1, 2, 3)

\* function combosOf3(items: string[]): string[]
combosOf3(items) == combosLoop(SortStrings(Dedupe(items)), 1, 2, 3)

---------------------------------------------------------------------------
(* aggregate.ts: aggregateCountsAndCombos.                                 *)

\* Lines 91-96: a raw unit as { character_id, items }.
toUnit(u) ==
    [character_id |-> u.character_id,
     items |-> IF u.items # <<>> THEN u.items[1]
               ELSE IF u.itemNames # <<>> THEN u.itemNames[1] ELSE <<>>]

toUnits(raw) == [i \in 1..Len(raw) |-> toUnit(raw[i])]

RECURSIVE incItems(_, _)
\* Line 115: for (const it of u.items) inc(itemBag, String(it))
incItems(itemBag, items) ==
    IF items = <<>> THEN itemBag
    ELSE incItems(inc(itemBag, items[1], 1), Tail(items))

RECURSIVE countUnits(_, _)
\* Lines 112-116: the item counts of every unit of the slice.
countUnits(bagUnits, units) ==
    IF units = <<>> THEN bagUnits
    ELSE LET u       == units[1]
             itemBag == IF MapHas(bagUnits, u.character_id)
                        THEN MapGet(bagUnits, u.character_id) ELSE <<>>
         IN  countUnits(MapSet(bagUnits, u.character_id, incItems(itemBag, u.items)),
                        Tail(units))

\* Mutant of countPlacement: an absent placement counts as 0 (|| 0).
countPlacement_Zero(c, placement) ==
    [c EXCEPT !.picks = @ + 1,
              !.wins = @ + (IF placement = <<1>> THEN 1 ELSE 0),
              !.sumPlacement = @ + Nullish(placement, 0)]

\* Lines 109-111 and 131-133: picks, wins and sumPlacement of one bucket.
countPlacement(c, placement) ==
    [c EXCEPT !.picks = @ + 1,
              !.wins = @ + (IF placement = <<1>> THEN 1 ELSE 0),
              !.sumPlacement = @ + Nullish(placement, 9)]

\* Lines 99-116: the composition bucket of one participant.
countComp(buckets, patch, placement, units) ==
    LET key == patch \o <<":", ":">> \o compSignature(units)
        bag == IF MapHas(buckets, key) THEN MapGet(buckets, key)
               ELSE [patch |-> patch, comp_key |-> Split(key, <<":", ":">>)[2],
                     picks |-> 0, wins |-> 0, sumPlacement |-> 0,
                     units |-> <<>>, unit_set |-> unitSet(units)]
        counted == countPlacement(bag, placement)
    IN  MapSet(buckets, key, [counted EXCEPT !.units = countUnits(@, units)])

RECURSIVE countCombos(_, _, _)
\* Lines 128-134: one unit's combos.
countCombos(unitBag, combos, placement) ==
    IF combos = <<>> THEN unitBag
    ELSE LET c == IF MapHas(unitBag, combos[1]) THEN MapGet(unitBag, combos[1])
                  ELSE [picks |-> 0, wins |-> 0, sumPlacement |-> 0]
         IN  countCombos(MapSet(unitBag, combos[1], countPlacement(c, placement)),
                         Tail(combos), placement)

RECURSIVE countUnitCombos_MoreThan3(_, _, _)
\* Mutant of countUnitCombos: a unit needs more than three items (<= 3).
countUnitCombos_MoreThan3(unitCombos, units, placement) ==
    IF units = <<>> THEN unitCombos
    ELSE LET u      == units[1]
             combos == combosOf3(u.items)
         IN  IF Len(u.items) <= 3 \/ Len(combos) = 0
             THEN countUnitCombos_MoreThan3(unitCombos, Tail(units), placement)
             ELSE LET unitBag == IF MapHas(unitCombos, u.character_id)
                                 THEN MapGet(unitCombos, u.character_id) ELSE <<>>
                  IN  countUnitCombos_MoreThan3(
                          MapSet(unitCombos, u.character_id,
                                 countCombos(unitBag, combos, placement)),
                          Tail(units), placement)

RECURSIVE countUnitCombos(_, _, _)
\* Lines 119-135: the unit 3-item combos of one participant.
countUnitCombos(unitCombos, units, placement) ==
    IF units = <<>> THEN unitCombos
    ELSE LET u      == units[1]
             combos == combosOf3(u.items)
         IN  IF Len(u.items) < 3 \/ Len(combos) = 0
             THEN countUnitCombos(unitCombos, Tail(units), placement)
             ELSE LET unitBag == IF MapHas(unitCombos, u.character_id)
                                 THEN MapGet(unitCombos, u.character_id) ELSE <<>>
                  IN  countUnitCombos(
                          MapSet(unitCombos, u.character_id,
                                 countCombos(unitBag, combos, placement)),
                          Tail(units), placement)

RECURSIVE aggParticipants(_, _, _)
\* Lines 90-136: the loop over the participants of one match.
aggParticipants(acc, patch, ps) ==
    IF ps = <<>> THEN acc
    ELSE LET p     == ps[1]
             units == toUnits(p.units)
         IN  aggParticipants(
                 [compBuckets |-> countComp(acc.compBuckets, patch, p.placement, units),
                  unitCombos  |-> countUnitCombos(acc.unitCombos, units, p.placement)],
                 patch, Tail(ps))

RECURSIVE aggMatches(_, _, _)
\* Lines 84-137: the loop over the matches.
aggMatches(acc, ms, filter) ==
    IF ms = <<>> THEN acc
    ELSE LET m     == ms[1]
             patch == normalizePatch(m.game_version)
         IN  IF m.participants = <<>> \/ (filter # <<>> /\ patch # filter)
             THEN aggMatches(acc, Tail(ms), filter)
             ELSE aggMatches(aggParticipants(acc, patch, m.participants[1]),
                             Tail(ms), filter)

\* export function aggregateCountsAndCombos(matches: any[], patchFilter: string)
aggregateCountsAndCombos(ms, filter) ==
    aggMatches([compBuckets |-> <<>>, unitCombos |-> <<>>], ms, filter)

---------------------------------------------------------------------------
(* aggregate.ts: finalizeComps, finalizeUnitCombos.                        *)

TOP_COMPS     == 20   \* out.slice(0, 20)
DEFAULT_TOP_N == 10   \* topN = 10

\* +(n / d).toFixed(2), as an integer number of hundredths.
Fixed2(n, d) == (200 * n + d) \div (2 * d)
\* +(n / d * 100).toFixed(1), as an integer number of tenths.
Fixed1Pct(n, d) == (2000 * n + d) \div (2 * d)

\* The comparator of lines 164 and 195: a sorts strictly before b.
rowBefore(a, b) ==
    \/ a.avg_placement < b.avg_placement
    \/ a.avg_placement = b.avg_placement /\ a.picks > b.picks

RECURSIVE insertRow(_, _)
insertRow(x, s) ==
    IF s = <<>> THEN <<x>>
    ELSE IF rowBefore(x, s[1]) THEN <<x>> \o s
    ELSE <<s[1]>> \o insertRow(x, Tail(s))

RECURSIVE sortRows(_)
\* rows.sort((a,b)=> a.avg_placement - b.avg_placement || b.picks - a.picks)
sortRows(rs) ==
    IF rs = <<>> THEN <<>>
    ELSE insertRow(rs[Len(rs)], sortRows(SubSeq(rs, 1, Len(rs) - 1)))

RECURSIVE insertFreq(_, _)
insertFreq(x, s) ==
    IF s = <<>> THEN <<x>>
    ELSE IF x[2][1] > s[1][2][1] THEN <<x>> \o s
    ELSE <<s[1]>> \o insertFreq(x, Tail(s))

RECURSIVE sortFreq(_)
\* out.sort((a,b)=>b[1]-a[1]); the frequencies share one denominator.
sortFreq(fs) ==
    IF fs = <<>> THEN <<>>
    ELSE insertFreq(fs[Len(fs)], sortFreq(SubSeq(fs, 1, Len(fs) - 1)))

RECURSIVE sumCounts(_)
sumCounts(counts) ==
    IF counts = <<>> THEN 0 ELSE counts[1].v + sumCounts(Tail(counts))

\* function freqFromCounts(counts): [item, c/total] pairs, the frequency
\* kept as the fraction <<c, total>>.
freqFromCounts(counts) ==
    LET total == sumCounts(counts)
    IN  sortFreq([i \in 1..Len(counts) |-> <<counts[i].k, <<counts[i].v, total>>>>])

\* arr.slice(0, n)
Slice0(arr, n) == SubSeq(arr, 1, IF Len(arr) < n THEN Len(arr) ELSE n)

RECURSIVE Filter(_, _)
\* The elements of arr whose index is in keep, in order.
Filter(arr, keep) ==
    IF arr = <<>> THEN <<>>
    ELSE LET front == Filter(SubSeq(arr, 1, Len(arr) - 1), keep)
         IN  IF Len(arr) \in keep THEN Append(front, arr[Len(arr)]) ELSE front

\* Lines 146-162: the row of one bucket.
compRow(c) ==
    [patch |-> c.patch, comp_key |-> c.comp_key, picks |-> c.picks,
     avg_placement |-> Fixed2(c.sumPlacement, c.picks),
     winrate |-> Fixed1Pct(c.wins, c.picks),
     unit_set |-> c.unit_set,
     units |-> [i \in 1..Len(c.units) |->
                  LET freq == freqFromCounts(c.units[i].v)
                  IN  [character_id |-> c.units[i].k,
                       top_items |-> [j \in 1..Len(Slice0(freq, 3)) |-> freq[j][1]],
                       item_freq |-> freq]]]

\* Mutant of finalizeComps: the rows are cut to 20 without being sorted.
finalizeComps_NoSort(buckets, min) ==
    LET kept == Filter(buckets, {i \in 1..Len(buckets) : ~(buckets[i].v.picks < min)})
    IN  Slice0([i \in 1..Len(kept) |-> compRow(kept[i].v)], TOP_COMPS)

\* Mutant of finalizeComps: a bucket at the threshold is dropped (<=).
finalizeComps_DropEqual(buckets, min) ==
    LET kept == Filter(buckets, {i \in 1..Len(buckets) : ~(buckets[i].v.picks <= min)})
    IN  Slice0(sortRows([i \in 1..Len(kept) |-> compRow(kept[i].v)]), TOP_COMPS)

\* export function finalizeComps(compBuckets, minPicks): CompRow[]
finalizeComps(buckets, min) ==
    LET kept == Filter(buckets, {i \in 1..Len(buckets) : ~(buckets[i].v.picks < min)})
    IN  Slice0(sortRows([i \in 1..Len(kept) |-> compRow(kept[i].v)]), TOP_COMPS)

\* Mutant of comboRows: the rows are cut to n without being sorted.
comboRows_NoSort(bag, min, n) ==
    LET kept == Filter(bag, {i \in 1..Len(bag) : ~(bag[i].v.picks < min)})
    IN  Slice0([i \in 1..Len(kept) |->
                  [combo |-> Split(kept[i].k, <<"|">>),
                   picks |-> kept[i].v.picks,
                   avg_placement |-> Fixed2(kept[i].v.sumPlacement, kept[i].v.picks),
                   winrate |-> Fixed1Pct(kept[i].v.wins, kept[i].v.picks)]], n)

\* Lines 185-196: the rows of one unit.
comboRows(bag, min, n) ==
    LET kept == Filter(bag, {i \in 1..Len(bag) : ~(bag[i].v.picks < min)})
    IN  Slice0(sortRows([i \in 1..Len(kept) |->
                  [combo |-> Split(kept[i].k, <<"|">>),
                   picks |-> kept[i].v.picks,
                   avg_placement |-> Fixed2(kept[i].v.sumPlacement, kept[i].v.picks),
                   winrate |-> Fixed1Pct(kept[i].v.wins, kept[i].v.picks)]]), n)

\* export function finalizeUnitCombos(unitCombos, minPicksItemCombo, topN = 10)
finalizeUnitCombos(unitCombos, min, n) ==
    LET all == [i \in 1..Len(unitCombos) |->
                  [unit |-> unitCombos[i].k,
                   combos |-> comboRows(unitCombos[i].v, min, n)]]
    IN  Filter(all, {i \in 1..Len(all) : Len(all[i].combos) > 0})

\* Mutant of compBucketsAfterFinalize: the buckets below the threshold are
\* deleted from the input map.
compBucketsAfterFinalize_Deletes(buckets, min) ==
    Filter(buckets, {i \in 1..Len(buckets) : ~(buckets[i].v.picks < min)})

\* The input map after finalizeComps(compBuckets, minPicks): lines 144-165
\* read the buckets, build new row objects and sort the new array; nothing
\* is assigned to a bucket or to the map.
compBucketsAfterFinalize(buckets, min) == buckets

\* The input map after finalizeUnitCombos(unitCombos, min, topN): lines
\* 184-199 read the buckets and sort and slice new arrays only.
unitCombosAfterFinalize(unitCombos, min, n) == unitCombos

---------------------------------------------------------------------------
(* aggregate.ts: merging state across runs.                                *)

RECURSIVE mergeItemCounts(_, _)
\* Line 217: for (const [item, cnt] of bag) dest.set(item, (dest.get(item)||0)+cnt)
mergeItemCounts(dest, bag) ==
    IF bag = <<>> THEN dest
    ELSE mergeItemCounts(inc(dest, bag[1].k, bag[1].v), Tail(bag))

RECURSIVE mergeUnits(_, _)
\* Lines 214-218: the units of one bucket.
mergeUnits(curUnits, addUnits) ==
    IF addUnits = <<>> THEN curUnits
    ELSE LET cid  == addUnits[1].k
             dest == IF MapHas(curUnits, cid) THEN MapGet(curUnits, cid) ELSE <<>>
         IN  mergeUnits(MapSet(curUnits, cid, mergeItemCounts(dest, addUnits[1].v)),
                        Tail(addUnits))

\* Mutant of addCounts: the picks of add are not added.
addCounts_NoPicks(cur, c) ==
    [cur EXCEPT !.wins = @ + c.wins,
                !.sumPlacement = @ + c.sumPlacement]

\* Mutant of addCounts: the wins of add are not added.
addCounts_NoWins(cur, c) ==
    [cur EXCEPT !.picks = @ + c.picks,
                !.sumPlacement = @ + c.sumPlacement]

\* Lines 211-213 and 234-236: the three counters.
addCounts(cur, c) ==
    [cur EXCEPT !.picks = @ + c.picks,
                !.wins = @ + c.wins,
                !.sumPlacement = @ + c.sumPlacement]

\* Lines 209-218: one bucket of add merged into base.
mergeCompBucket(base, k, c) ==
    IF ~MapHas(base, k) THEN MapSet(base, k, c)
    ELSE LET cur == MapGet(base, k)
         IN  MapSet(base, k, [addCounts(cur, c) EXCEPT !.units = mergeUnits(@, c.units)])

RECURSIVE mergeCompBuckets(_, _)
\* export function mergeCompBuckets(base, add): the contents of base after it.
mergeCompBuckets(base, add) ==
    IF add = <<>> THEN base
    ELSE mergeCompBuckets(mergeCompBucket(base, add[1].k, add[1].v), Tail(add))

\* Lines 231-237: one combo of add merged into dest.
mergeCombo(dest, combo, c) ==
    IF ~MapHas(dest, combo) THEN MapSet(dest, combo, c)
    ELSE MapSet(dest, combo, addCounts(MapGet(dest, combo), c))

RECURSIVE mergeComboBag(_, _)
\* Lines 230-238: the combos of one unit.
mergeComboBag(dest, bag) ==
    IF bag = <<>> THEN dest
    ELSE mergeComboBag(mergeCombo(dest, bag[1].k, bag[1].v), Tail(bag))

RECURSIVE mergeUnitCombos(_, _)
\* export function mergeUnitCombos(base, add): the contents of base after it.
mergeUnitCombos(base, add) ==
    IF add = <<>> THEN base
    ELSE LET unit == add[1].k
             dest == IF MapHas(base, unit) THEN MapGet(base, unit) ELSE <<>>
         IN  mergeUnitCombos(MapSet(base, unit, mergeComboBag(dest, add[1].v)),
                             Tail(add))

---------------------------------------------------------------------------
(* pipeline.ts: the state file.                                            *)

\* function serializeCompBuckets(map)
serializeCompBuckets(map) ==
    [i \in 1..Len(map) |->
        LET c == map[i].v
        IN  [key |-> map[i].k, patch |-> c.patch, picks |-> c.picks,
             wins |-> c.wins, sumPlacement |-> c.sumPlacement,
             unit_set |-> c.unit_set,
             units |-> [j \in 1..Len(c.units) |->
                          <<c.units[j].k,
                            [n \in 1..Len(c.units[j].v) |->
                               <<c.units[j].v[n].k, c.units[j].v[n].v>>]>>]]]

RECURSIVE MapOfPairs(_, _)
\* new Map(pairs), on top of the entries of m.
MapOfPairs(m, pairs) ==
    IF pairs = <<>> THEN m
    ELSE MapOfPairs(MapSet(m, pairs[1][1], pairs[1][2]), Tail(pairs))

\* Mutant of deserializeUnits: the item counts of the units are not restored.
deserializeUnits_NoItems(units, pairs) ==
    [i \in 1..Len(pairs) |-> [k |-> pairs[i][1], v |-> <<>>]]

RECURSIVE deserializeUnits(_, _)
\* Line 164: for (const [cid, arr] of r.units) units.set(cid, new Map(arr))
deserializeUnits(units, pairs) ==
    IF pairs = <<>> THEN units
    ELSE deserializeUnits(MapSet(units, pairs[1][1], MapOfPairs(<<>>, pairs[1][2])),
                          Tail(pairs))

RECURSIVE deserializeLoop(_, _)
deserializeLoop(m, rs) ==
    IF rs = <<>> THEN m
    ELSE LET r == rs[1]
         IN  deserializeLoop(
                 MapSet(m, r.key,
                        [patch |-> r.patch, comp_key |-> Split(r.key, <<":", ":">>)[2],
                         picks |-> r.picks, wins |-> r.wins,
                         sumPlacement |-> r.sumPlacement,
                         units |-> deserializeUnits(<<>>, r.units),
                         unit_set |-> r.unit_set]),
                 Tail(rs))

\* function deserializeCompBuckets(rows)
deserializeCompBuckets(rs) == deserializeLoop(<<>>, rs)

\* function serializeUnitCombos(map)
serializeUnitCombos(map) ==
    [i \in 1..Len(map) |->
        [unit |-> map[i].k,
         combos |-> [j \in 1..Len(map[i].v) |-> <<map[i].v[j].k, map[i].v[j].v>>]]]

RECURSIVE deserializeUnitCombosLoop(_, _)
deserializeUnitCombosLoop(m, rs) ==
    IF rs = <<>> THEN m
    ELSE deserializeUnitCombosLoop(
             MapSet(m, rs[1].unit, MapOfPairs(<<>>, rs[1].combos)), Tail(rs))

\* function deserializeUnitCombos(rows)
deserializeUnitCombos(rs) == deserializeUnitCombosLoop(<<>>, rs)

\* Mutant of startingState: the stored state is loaded whatever its patch.
startingState_AnyPatch(prevRaw, target) ==
    IF prevRaw # <<>>
    THEN [compBuckets |-> deserializeCompBuckets(prevRaw[1].__comp),
          unitComboBuckets |-> deserializeUnitCombos(prevRaw[1].__unitCombos)]
    ELSE [compBuckets |-> <<>>, unitComboBuckets |-> <<>>]

\* Lines 194-202 of main: the maps the run starts with.
startingState(prevRaw, target) ==
    IF prevRaw # <<>> /\ prevRaw[1].patch = target
    THEN [compBuckets |-> deserializeCompBuckets(prevRaw[1].__comp),
          unitComboBuckets |-> deserializeUnitCombos(prevRaw[1].__unitCombos)]
    ELSE [compBuckets |-> <<>>, unitComboBuckets |-> <<>>]

\* Lines 229-245 of main: the payload, without its run metadata.
payloadOf(target, comps, combos, compMap, comboMap) ==
    [patch |-> target, comps_top20 |-> comps, unit_item_meta |-> combos,
     __comp |-> serializeCompBuckets(compMap),
     __unitCombos |-> serializeUnitCombos(comboMap)]

---------------------------------------------------------------------------
(* Inputs: match payloads as the Riot API returns them.                    *)

STR_15_4   == <<"1", "5", ".", "4">>
STR_15_3   == <<"1", "5", ".", "3">>
VER_15_4_1 == <<"1", "5", ".", "4", ".", "1">>
VER_15_3_1 == <<"1", "5", ".", "3", ".", "1">>

\* A unit with an items array, and one with an itemNames array only.
RawUnit(cid, items)      == [character_id |-> <<cid>>, items |-> <<items>>, itemNames |-> <<>>]
RawUnitNames(cid, names) == [character_id |-> <<cid>>, items |-> <<>>, itemNames |-> <<names>>]
Participant(placement, units) == [placement |-> placement, units |-> units]
Match(ver, ps) == [game_version |-> ver, participants |-> <<ps>>]

X == <<"x">>
Y == <<"y">>
Z == <<"z">>
W == <<"w">>

\* Matches of one participant each: two orders of one composition, four
\* items, a repeated item, a repeated unit, another patch, no version, and
\* a payload without participants.
MatchPool ==
    { Match(<<VER_15_4_1>>, <<Participant(<<1>>,
          <<RawUnit("A", <<X, Y, Z>>), RawUnit("B", <<X, Y>>)>>)>>),
      Match(<<VER_15_4_1>>, <<Participant(<<5>>,
          <<RawUnit("B", <<Y, X>>), RawUnit("A", <<Z, Y, X>>)>>)>>),
      Match(<<VER_15_4_1>>, <<Participant(<<>>,
          <<RawUnit("A", <<Z, W, Y, X>>)>>)>>),
      Match(<<VER_15_4_1>>, <<Participant(<<1>>,
          <<RawUnitNames("B", <<X, Y, X>>)>>)>>),
      Match(<<VER_15_4_1>>, <<Participant(<<8>>,
          <<RawUnit("A", <<X, Y, Z>>), RawUnit("A", <<X, Y, Z>>)>>)>>),
      Match(<<VER_15_3_1>>, <<Participant(<<1>>,
          <<RawUnit("A", <<X, Y, Z>>)>>)>>),
      Match(<<>>, <<Participant(<<4>>,
          <<RawUnit("A", <<X, X, Y, Z>>)>>)>>),
      [game_version |-> <<VER_15_4_1>>, participants |-> <<>>] }

\* The matches of the scenario of spec section 8, a match of two
\* participants that hold the same unit among other units, and a match of
\* another patch.
M_A_XYZ == Match(<<VER_15_4_1>>, <<Participant(<<1>>, <<RawUnit("A", <<X, Y, Z>>)>>)>>)
M_A_XY  == Match(<<VER_15_4_1>>, <<Participant(<<5>>, <<RawUnit("A", <<X, Y>>)>>)>>)
M_TWO   == Match(<<VER_15_4_1>>,
               <<Participant(<<2>>, <<RawUnit("B", <<X, Y>>), RawUnit("A", <<Z, X, Y>>)>>),
                 Participant(<<>>, <<RawUnit("A", <<W, X, Y, Z>>)>>)>>)
M_15_3  == Match(<<VER_15_3_1>>, <<Participant(<<1>>, <<RawUnit("A", <<X, Y, Z>>)>>)>>)

ScenarioPool == {M_A_XYZ, M_A_XY, M_TWO}

PatchFilters == {STR_15_4, <<>>}
TopNs        == {2, DEFAULT_TOP_N}

---------------------------------------------------------------------------
(* Values of the variables a specification does not use.                   *)

IdleAgg  == matches = <<>> /\ patchFilter = <<>> /\ out = <<>>
IdleFin  == minPicks = 0 /\ minPicksItemCombo = 0 /\ topN = 0 /\ rows = <<>>
IdleHeap == heap = <<>> /\ baseRefs = <<>> /\ deltaRefs = <<>>
IdleMrg  == parts = <<>> /\ merged = <<>> /\ IdleHeap
IdleNorm == v = <<>> /\ patchOut = <<>>
IdleCol ==
    /\ seen = <<>> /\ lines = <<>> /\ matchIds = {} /\ platformIdx = 0
    /\ cpc = "idle" /\ seenFile = <<>> /\ outFile = <<>> /\ fetchLog = <<>>
    /\ collectorRuns = 0
IdleRetry ==
    /\ tries = 0 /\ attempt = 0 /\ responses = <<>> /\ sleeps = <<>>
    /\ outcome = "idle"
IdlePipe ==
    /\ PATCH = <<>> /\ MIN_PICKS = 0 /\ MIN_PICKS_ITEM_COMBO = 0
    /\ disk = <<>> /\ pc = "idle" /\ prev = <<>>
    /\ compBuckets = <<>> /\ unitComboBuckets = <<>>
    /\ platformsLeft = 0 /\ runs = 0 /\ fetched = <<>>

---------------------------------------------------------------------------
(* aggregateCountsAndCombos applied to growing lists of matches.           *)

\* One more match is fetched and the list is aggregated.
Aggregate(m) ==
    /\ matches' = Append(matches, m)
    /\ out' = <<aggregateCountsAndCombos(matches', patchFilter)>>
    /\ rows' = <<>>
    /\ UNCHANGED <<patchFilter, minPicks, minPicksItemCombo, topN,
                   mrgVars, normVars, colVars, retryVars, pipeVars>>

InitAgg ==
    /\ matches = <<>> /\ out = <<>>
    /\ patchFilter \in PatchFilters
    /\ IdleFin /\ IdleMrg /\ IdleNorm /\ IdlePipe /\ IdleCol /\ IdleRetry

NextAgg == Len(matches) < MaxSlices /\ \E m \in MatchPool : Aggregate(m)

SpecAgg == InitAgg /\ [][NextAgg]_vars

NextScenario == Len(matches) < MaxScenario /\ \E m \in ScenarioPool : Aggregate(m)

SpecScenario == InitAgg /\ [][NextScenario]_vars

---------------------------------------------------------------------------
(* Vocabulary of the properties: maps compared by key and value, whatever  *)
(* their insertion order, and the participant slices of a list of matches. *)

Range(f) == {f[i] : i \in DOMAIN f}

\* A Map as the set of its <<key, value>> pairs.
Pairs(m) == {<<m[i].k, m[i].v>> : i \in 1..Len(m)}

\* The per-unit item counts of a bucket: unit -> item -> count.
ItemCountsView(units) == {<<units[i].k, Pairs(units[i].v)>> : i \in 1..Len(units)}

\* A composition map: key -> every field of the bucket.
CompView(m) ==
    {<<m[i].k, [m[i].v EXCEPT !.units = ItemCountsView(@)]>> : i \in 1..Len(m)}

\* A composition map: key -> the counts only.
CompCountsView(m) ==
    {<<m[i].k, m[i].v.picks, m[i].v.wins, m[i].v.sumPlacement,
       ItemCountsView(m[i].v.units)>> : i \in 1..Len(m)}

\* A unit-combo map: unit -> combo -> counts.
ComboView(m) == {<<m[i].k, Pairs(m[i].v)>> : i \in 1..Len(m)}

AggView(r) == [compBuckets |-> CompView(r.compBuckets),
               unitCombos  |-> ComboView(r.unitCombos)]

RECURSIVE SlicesOf(_, _)
\* The participant slices of the matches that pass the filter, each with
\* its patch, its placement and its units, in input order.
SlicesOf(ms, filter) ==
    IF ms = <<>> THEN <<>>
    ELSE LET m     == ms[1]
             patch == normalizePatch(m.game_version)
             mine  == IF m.participants = <<>> \/ (filter # <<>> /\ patch # filter)
                      THEN <<>>
                      ELSE [i \in 1..Len(m.participants[1]) |->
                              [patch |-> patch,
                               placement |-> m.participants[1][i].placement,
                               units |-> toUnits(m.participants[1][i].units)]]
         IN  mine \o SlicesOf(Tail(ms), filter)

RECURSIVE SingleSliceMatches(_)
\* The same slices as matches of one participant each.
SingleSliceMatches(ms) ==
    IF ms = <<>> THEN <<>>
    ELSE LET m == ms[1]
             mine == IF m.participants = <<>> THEN <<>>
                     ELSE [i \in 1..Len(m.participants[1]) |->
                             [game_version |-> m.game_version,
                              participants |-> <<<<m.participants[1][i]>>>>]]
         IN  mine \o SingleSliceMatches(Tail(ms))

Permuted(seq, pi) == [i \in 1..Len(seq) |-> seq[pi[i]]]

\* The placement a slice is counted with, and whether it is a win.
CountedPlacement(sl) == IF sl.placement = <<>> THEN 9 ELSE sl.placement[1]
IsWin(sl) == sl.placement # <<>> /\ sl.placement[1] = 1

RECURSIVE SumSeq(_)
\* The sum of a sequence of integers.
SumSeq(ns) == IF ns = <<>> THEN 0 ELSE ns[1] + SumSeq(Tail(ns))

\* The counts of a bucket of a map, 0 when the map has no such bucket.
CountsAt(m, k) ==
    IF MapHas(m, k)
    THEN <<MapGet(m, k).picks, MapGet(m, k).wins, MapGet(m, k).sumPlacement>>
    ELSE <<0, 0, 0>>
ComboCountsAt(uc, unit, k) ==
    IF MapHas(uc, unit) THEN CountsAt(MapGet(uc, unit), k) ELSE <<0, 0, 0>>
ComboKeys(uc) == UNION {{<<uc[i].k, e.k>> : e \in Range(uc[i].v)} : i \in 1..Len(uc)}

---------------------------------------------------------------------------
(* C1: order-insensitivity of aggregation.                                 *)

\* C1. For every permutation of the participant slices of the input,
\* aggregateCountsAndCombos yields the same composition-bucket map and the
\* same unit-combo map: the same keys, and for every key the same picks,
\* wins, sumPlacement, unit_set and per-unit item counts.
C1_OrderInsensitive ==
    out # <<>> =>
        LET ss == SingleSliceMatches(matches)
        IN  \A pi \in Permutations(1..Len(ss)) :
                AggView(aggregateCountsAndCombos(Permuted(ss, pi), patchFilter))
                    = AggView(out[1])

\* Three slices were aggregated, two of them into one bucket, and some
\* order of them builds the maps in another insertion order.
C1_Witness ==
    /\ out # <<>>
    /\ Len(SlicesOf(matches, patchFilter)) = 3
    /\ \E i \in 1..Len(out[1].compBuckets) : out[1].compBuckets[i].v.picks >= 2
    /\ \E pi \in Permutations(1..Len(matches)) :
           aggregateCountsAndCombos(Permuted(matches, pi), patchFilter) # out[1]

---------------------------------------------------------------------------
(* C3: stability of the composition signature.                             *)

\* The slices of the input whose bucket is in the result.
CountedSlices == SlicesOf(matches, patchFilter)

\* The unit list with the items of every unit reversed.
ItemsReversed(units) ==
    [i \in 1..Len(units) |->
        [units[i] EXCEPT !.items =
            [j \in 1..Len(@) |-> @[Len(@) + 1 - j]]]]

\* C3 as claimed. The signature of a slice is the same for any reordering
\* of its units, and the same whether a unit appears once or several times
\* (duplicates are collapsed).
C3_SignatureStable ==
    out # <<>> =>
        \A n \in 1..Len(CountedSlices) :
            LET units == CountedSlices[n].units
            IN  /\ \A pi \in Permutations(1..Len(units)) :
                       compSignature(Permuted(units, pi)) = compSignature(units)
                /\ \A i \in 1..Len(units) :
                       compSignature(Append(units, units[i])) = compSignature(units)

\* C3 as amended. The signature of a slice is the same for any reordering
\* of its units and of the items of a unit; duplicates are not collapsed:
\* a slice that lists a unit once more has another signature, and its
\* bucket is keyed by the patch and that signature.
C3_SignatureOrderOnly ==
    out # <<>> =>
        \A n \in 1..Len(CountedSlices) :
            LET units == CountedSlices[n].units
            IN  /\ \A pi \in Permutations(1..Len(units)) :
                       compSignature(Permuted(units, pi)) = compSignature(units)
                /\ compSignature(ItemsReversed(units)) = compSignature(units)
                /\ \A i \in 1..Len(units) :
                       compSignature(Append(units, units[i])) # compSignature(units)
                /\ \A pi \in Permutations(1..Len(units)) :
                       MapHas(out[1].compBuckets,
                              CountedSlices[n].patch \o <<":", ":">>
                                  \o compSignature(Permuted(units, pi)))

\* A slice of two different units and a slice that lists one unit twice
\* were aggregated.
C3_Witness ==
    /\ out # <<>>
    /\ \E n \in 1..Len(CountedSlices) :
           LET units == CountedSlices[n].units
           IN  Len(units) = 2 /\ units[1].character_id # units[2].character_id
    /\ \E n \in 1..Len(CountedSlices) :
           LET units == CountedSlices[n].units
           IN  Len(units) = 2 /\ units[1] = units[2]

---------------------------------------------------------------------------
(* C5: completeness and canonical keys of the 3-item combos.               *)

\* The key of a set of three items: the items in sorted order, joined.
KeyOf3(S) ==
    LET q == CHOOSE q \in [1..3 -> S] :
                 Range(q) = S /\ StrLess(q[1], q[2]) /\ StrLess(q[2], q[3])
    IN  q[1] \o <<"|">> \o q[2] \o <<"|">> \o q[3]

\* The keys of all 3-element subsets of the distinct items of a list.
Sub3Keys(items) ==
    {KeyOf3(S) : S \in {T \in SUBSET Range(items) : Cardinality(T) = 3}}

\* The unit instances of the counted slices.
CountedUnits ==
    UNION {Range(CountedSlices[n].units) : n \in 1..Len(CountedSlices)}

\* C5. For a unit instance the combo keys are exactly the 3-element subsets
\* of its distinct items, each listed once with its items sorted, whatever
\* the order and repetition of the item list; four distinct items give 4
\* combos, fewer than three give none; and the result holds, per unit,
\* exactly the combos of its instances, with no empty per-unit map.
C5_ComboComplete ==
    out # <<>> =>
        /\ \A u \in CountedUnits :
               LET combos == combosOf3(u.items)
               IN  /\ Range(combos) = Sub3Keys(u.items)
                   /\ Len(combos) = Cardinality(Range(combos))
                   /\ \A pi \in Permutations(1..Len(u.items)) :
                          combosOf3(Permuted(u.items, pi)) = combos
                   /\ \A i \in 1..Len(u.items) :
                          combosOf3(Append(u.items, u.items[i])) = combos
                   /\ Cardinality(Range(u.items)) = 4 => Len(combos) = 4
                   /\ Cardinality(Range(u.items)) < 3 => Len(combos) = 0
        /\ \A cid \in {u.character_id : u \in CountedUnits} \cup MapKeys(out[1].unitCombos) :
               LET keys == UNION {Sub3Keys(u.items) :
                                    u \in {w \in CountedUnits : w.character_id = cid}}
               IN  IF keys = {} THEN ~MapHas(out[1].unitCombos, cid)
                   ELSE /\ MapHas(out[1].unitCombos, cid)
                        /\ MapKeys(MapGet(out[1].unitCombos, cid)) = keys

\* A unit of four items gave four combos, a unit whose four-item list
\* repeats an item gave one, and a unit of three items, two of them
\* distinct, left no map behind.
C5_Witness ==
    /\ out # <<>>
    /\ \E u \in CountedUnits : Len(u.items) = 4 /\ Cardinality(Range(u.items)) = 4
    /\ \E u \in CountedUnits : Len(u.items) = 4 /\ Cardinality(Range(u.items)) = 3
    /\ \E u \in CountedUnits :
           /\ Len(u.items) = 3 /\ Cardinality(Range(u.items)) = 2
           /\ ~MapHas(out[1].unitCombos, u.character_id)
    /\ Cardinality(ComboKeys(out[1].unitCombos)) = 4

---------------------------------------------------------------------------
(* C7: the placement sentinel.                                             *)

Minus(a, b) == <<a[1] - b[1], a[2] - b[2], a[3] - b[3]>>

\* The change one more slice sl makes to the buckets: the composition map
\* before and after, the combo map before and after.
SliceCountedAs(sl, comp0, comp1, uc0, uc1) ==
    LET P == IF sl.placement = <<>> THEN 9 ELSE sl.placement[1]
        Wn == IF sl.placement # <<>> /\ sl.placement[1] = 1 THEN 1 ELSE 0
    IN  /\ \A k \in MapKeys(comp0) : MapHas(comp1, k)
        /\ \E k \in MapKeys(comp1) :
               /\ Minus(CountsAt(comp1, k), CountsAt(comp0, k)) = <<1, Wn, P>>
               /\ \A k2 \in MapKeys(comp1) \ {k} :
                      CountsAt(comp1, k2) = CountsAt(comp0, k2)
        /\ ComboKeys(uc0) \subseteq ComboKeys(uc1)
        /\ \A uk \in ComboKeys(uc1) :
               LET d == Minus(ComboCountsAt(uc1, uk[1], uk[2]),
                              ComboCountsAt(uc0, uk[1], uk[2]))
               IN  /\ d[1] >= 0 /\ d[2] = Wn * d[1] /\ d[3] = P * d[1]
                   /\ ~MapHas(uc0, uk[1]) \/ ~MapHas(MapGet(uc0, uk[1]), uk[2])
                          => d[1] >= 1

\* C7. A participant adds 1 to picks of the composition bucket it updates
\* and, per unit instance, 1 to picks of every combo bucket it updates;
\* with each pick it adds its placement to sumPlacement, 9 when the
\* placement is absent; wins grows with the pick exactly when the
\* placement is 1, so never for an absent placement.
C7_PlacementSentinel ==
    [][ LET before == SlicesOf(matches, patchFilter)
            after  == SlicesOf(matches', patchFilter)
            comp0  == IF out = <<>> THEN <<>> ELSE out[1].compBuckets
            uc0    == IF out = <<>> THEN <<>> ELSE out[1].unitCombos
        IN  Len(after) = Len(before) + 1 =>
                SliceCountedAs(after[Len(after)], comp0, out'[1].compBuckets,
                               uc0, out'[1].unitCombos) ]_vars

\* A slice without placement was counted into a composition bucket and a
\* combo bucket that hold counts of other slices too.
C7_Witness ==
    /\ out # <<>>
    /\ Len(CountedSlices) >= 2
    /\ CountedSlices[Len(CountedSlices)].placement = <<>>
    /\ \E uk \in ComboKeys(out[1].unitCombos) :
           ComboCountsAt(out[1].unitCombos, uk[1], uk[2])[1] >= 2
    /\ \E i \in 1..Len(out[1].compBuckets) : out[1].compBuckets[i].v.picks >= 2

---------------------------------------------------------------------------
(* C4: the composition signature and the items.                            *)

\* How often x occurs in a sequence.
Occurrences(seq, x) == Cardinality({i \in 1..Len(seq) : seq[i] = x})
\* A sequence as a multiset: element -> number of occurrences.
BagOf(seq) == [x \in Range(seq) |-> Occurrences(seq, x)]

\* What the claim takes to identify a composition, and what does.
UnitIdsOf(sl) == <<sl.patch, {u.character_id : u \in Range(sl.units)}>>
UnitsAndItemsOf(sl) ==
    <<sl.patch,
      BagOf([i \in 1..Len(sl.units) |->
               <<sl.units[i].character_id, BagOf(sl.units[i].items)>>])>>

\* The counts of the slices of one class.
ClassCounts(class(_), c) ==
    LET in == {n \in 1..Len(CountedSlices) : class(CountedSlices[n]) = c}
    IN  <<Cardinality(in),
          Cardinality({n \in in : IsWin(CountedSlices[n])}),
          SumSeq([n \in 1..Len(CountedSlices) |->
                    IF n \in in THEN CountedPlacement(CountedSlices[n]) ELSE 0])>>

\* The buckets are the classes of the slices, each with its class's counts.
BucketsAreClasses(class(_)) ==
    LET classes == {class(CountedSlices[n]) : n \in 1..Len(CountedSlices)}
        comp    == out[1].compBuckets
    IN  /\ Len(comp) = Cardinality(classes)
        /\ \A c \in classes :
               \E k \in MapKeys(comp) : CountsAt(comp, k) = ClassCounts(class, c)

SliceAxyz == [patch |-> STR_15_4, placement |-> <<1>>,
              units |-> <<[character_id |-> <<"A">>, items |-> <<X, Y, Z>>]>>]
SliceAxy  == [patch |-> STR_15_4, placement |-> <<5>>,
              units |-> <<[character_id |-> <<"A">>, items |-> <<X, Y>>]>>]

\* The scenario of spec section 8: three slices {placement 1, A with x,y,z}
\* and two slices {placement 5, A with x,y}, in any order.
IsScenario ==
    /\ Len(CountedSlices) = 5
    /\ Occurrences(CountedSlices, SliceAxyz) = 3
    /\ Occurrences(CountedSlices, SliceAxy) = 2

KEY_A     == STR_15_4 \o <<":", ":", "A">>
KEY_A_XYZ == STR_15_4 \o <<":", ":", "A", ":", "x", ".", "y", ".", "z">>
KEY_A_XY  == STR_15_4 \o <<":", ":", "A", ":", "x", ".", "y">>

\* C4 as claimed. Slices of one patch with the same set of unit ids are
\* counted in one bucket, whatever their items; the scenario gives a single
\* bucket of signature "A" with picks 5, wins 3 and sumPlacement 13.
C4_ItemIndependent ==
    out # <<>> =>
        /\ BucketsAreClasses(UnitIdsOf)
        /\ IsScenario =>
               /\ MapKeys(out[1].compBuckets) = {KEY_A}
               /\ CountsAt(out[1].compBuckets, KEY_A) = <<5, 3, 13>>

\* C4 as amended. The signature lists every unit with its sorted items:
\* slices of one patch are counted in one bucket exactly when they hold the
\* same units with the same items, in any order. The scenario gives two
\* buckets: "A:x.y.z" with picks 3, wins 3, sumPlacement 3 and "A:x.y" with
\* picks 2, wins 0, sumPlacement 10.
C4_ItemDependent ==
    out # <<>> =>
        /\ BucketsAreClasses(UnitsAndItemsOf)
        /\ IsScenario =>
               /\ MapKeys(out[1].compBuckets) = {KEY_A_XYZ, KEY_A_XY}
               /\ CountsAt(out[1].compBuckets, KEY_A_XYZ) = <<3, 3, 3>>
               /\ CountsAt(out[1].compBuckets, KEY_A_XY) = <<2, 0, 10>>
               /\ MapGet(out[1].compBuckets, KEY_A_XYZ).comp_key
                      = <<"A", ":", "x", ".", "y", ".", "z">>

\* The five slices of the scenario were aggregated.
C4_Witness == out # <<>> /\ IsScenario

---------------------------------------------------------------------------
(* C6: combo counting per (unit, combo).                                   *)

\* How many unit instances of slice sl are unit cid with distinct items
\* that include all of combo k.
InstancesIn(sl, cid, k) ==
    Cardinality({i \in 1..Len(sl.units) :
                    /\ sl.units[i].character_id = cid
                    /\ k \in Sub3Keys(sl.units[i].items)})

\* picks, wins and sumPlacement that the instances of (cid, k) amount to.
InstanceCounts(cid, k) ==
    LET on == [n \in 1..Len(CountedSlices) |-> InstancesIn(CountedSlices[n], cid, k)]
    IN  <<SumSeq(on),
          SumSeq([n \in 1..Len(CountedSlices) |->
                    IF IsWin(CountedSlices[n]) THEN on[n] ELSE 0]),
          SumSeq([n \in 1..Len(CountedSlices) |->
                    on[n] * CountedPlacement(CountedSlices[n])])>>

AllItems == {W, X, Y, Z}
AllCombos == {KeyOf3(S) : S \in {T \in SUBSET AllItems : Cardinality(T) = 3}}
KEY_XYZ == <<"x", "|", "y", "|", "z">>

\* C6. The bucket of (unit u, combo k) has picks equal to the number of
\* unit instances of u whose distinct items include k, wins equal to those
\* of placement 1 and sumPlacement equal to the sum of their placements,
\* whatever other units the slices hold, and there is a bucket exactly for
\* the pairs with an instance; in the scenario (A, "x|y|z") has picks 3 and
\* wins 3.
C6_ComboCounts ==
    out # <<>> =>
        /\ \A cid \in {<<"A">>, <<"B">>} : \A k \in AllCombos :
               /\ ComboCountsAt(out[1].unitCombos, cid, k) = InstanceCounts(cid, k)
               /\ <<cid, k>> \in ComboKeys(out[1].unitCombos)
                      <=> InstanceCounts(cid, k)[1] >= 1
        /\ IsScenario =>
               /\ ComboKeys(out[1].unitCombos) = {<<<<"A">>, KEY_XYZ>>}
               /\ ComboCountsAt(out[1].unitCombos, <<"A">>, KEY_XYZ) = <<3, 3, 3>>

\* A combo of unit A was counted from instances that stand alone, beside a
\* unit B and in a slice without placement.
C6_Witness ==
    /\ out # <<>>
    /\ ComboCountsAt(out[1].unitCombos, <<"A">>, KEY_XYZ)[1] >= 3
    /\ \E n \in 1..Len(CountedSlices) :
           /\ InstancesIn(CountedSlices[n], <<"A">>, KEY_XYZ) = 1
           /\ Len(CountedSlices[n].units) = 2
    /\ \E n \in 1..Len(CountedSlices) :
           /\ InstancesIn(CountedSlices[n], <<"A">>, KEY_XYZ) = 1
           /\ CountedSlices[n].placement = <<>>
    /\ \E n \in 1..Len(CountedSlices) : CountedSlices[n] = SliceAxyz

\* The scenario's combo bucket was built.
C6_Scenario == out # <<>> /\ IsScenario

---------------------------------------------------------------------------
(* mergeCompBuckets and mergeUnitCombos applied to three partial states.   *)

MergePool ==
    ScenarioPool \cup
    { Match(<<VER_15_4_1>>, <<Participant(<<1>>,
          <<RawUnit("A", <<X, Y, Z>>), RawUnit("B", <<X, Y>>)>>)>>) }

\* The three groupings of the merge of partial states a, b and c.
mergeThree(a, b, c) ==
    [comp |->
        [ab_c |-> mergeCompBuckets(mergeCompBuckets(a.compBuckets, b.compBuckets),
                                   c.compBuckets),
         a_bc |-> mergeCompBuckets(a.compBuckets,
                                   mergeCompBuckets(b.compBuckets, c.compBuckets)),
         ba_c |-> mergeCompBuckets(mergeCompBuckets(b.compBuckets, a.compBuckets),
                                   c.compBuckets)],
     combos |->
        [ab_c |-> mergeUnitCombos(mergeUnitCombos(a.unitCombos, b.unitCombos),
                                  c.unitCombos),
         a_bc |-> mergeUnitCombos(a.unitCombos,
                                  mergeUnitCombos(b.unitCombos, c.unitCombos)),
         ba_c |-> mergeUnitCombos(mergeUnitCombos(b.unitCombos, a.unitCombos),
                                  c.unitCombos)]]

\* The partial state of part i.
PartState(i) == aggregateCountsAndCombos(parts[i], patchFilter)

\* One more match goes to part i; the three parts are aggregated apart and
\* merged in the three groupings.
MergeParts(i, m) ==
    /\ parts' = [parts EXCEPT ![i] = Append(@, m)]
    /\ merged' = <<mergeThree(aggregateCountsAndCombos(parts'[1], patchFilter),
                              aggregateCountsAndCombos(parts'[2], patchFilter),
                              aggregateCountsAndCombos(parts'[3], patchFilter))>>
    /\ UNCHANGED <<aggVars, finVars, normVars, colVars, retryVars, pipeVars, heap, baseRefs, deltaRefs>>

InitMerge ==
    /\ parts = <<<<>>, <<>>, <<>>>> /\ merged = <<>> /\ IdleHeap
    /\ matches = <<>> /\ out = <<>> /\ patchFilter \in PatchFilters
    /\ IdleFin /\ IdleNorm /\ IdlePipe /\ IdleCol /\ IdleRetry

NextMerge ==
    /\ Len(parts[1]) + Len(parts[2]) + Len(parts[3]) < MaxMergeTotal
    /\ \E i \in 1..3 : \E m \in MergePool : MergeParts(i, m)

SpecMerge == InitMerge /\ [][NextMerge]_vars

\* C2. For three partial states A, B, C built from disjoint lists of
\* slices, merge(merge(A,B),C), merge(A,merge(B,C)) and merge(merge(B,A),C)
\* hold the same keys and the same picks, wins, sumPlacement and per-unit
\* item counts, for mergeCompBuckets and for mergeUnitCombos.
C2_MergeAssocComm ==
    merged # <<>> =>
        /\ CompCountsView(merged[1].comp.ab_c) = CompCountsView(merged[1].comp.a_bc)
        /\ CompCountsView(merged[1].comp.ab_c) = CompCountsView(merged[1].comp.ba_c)
        /\ ComboView(merged[1].combos.ab_c) = ComboView(merged[1].combos.a_bc)
        /\ ComboView(merged[1].combos.ab_c) = ComboView(merged[1].combos.ba_c)

\* Three non-empty partial states were merged; a composition bucket and a
\* combo bucket are each held by two of them, and two groupings built the
\* composition map in different insertion orders.
C2_Witness ==
    /\ merged # <<>>
    /\ \A i \in 1..3 : PartState(i).compBuckets # <<>>
    /\ \E i, j \in 1..3 :
           /\ i # j
           /\ MapKeys(PartState(i).compBuckets) \cap MapKeys(PartState(j).compBuckets) # {}
           /\ ComboKeys(PartState(i).unitCombos) \cap ComboKeys(PartState(j).unitCombos) # {}
    /\ merged[1].comp.ab_c # merged[1].comp.ba_c

---------------------------------------------------------------------------
(* finalizeComps and finalizeUnitCombos applied to aggregated buckets.     *)

\* The buckets in out are finalized with thresholds t1, t2 and cap n.
Finalize(t1, t2, n) ==
    /\ out # <<>> /\ rows = <<>>
    /\ minPicks' = t1 /\ minPicksItemCombo' = t2 /\ topN' = n
    /\ rows' = <<[comps |-> finalizeComps(out[1].compBuckets, t1),
                  unit_item_meta |-> finalizeUnitCombos(out[1].unitCombos, t2, n)]>>
    /\ UNCHANGED <<aggVars, mrgVars, normVars, colVars, retryVars, pipeVars>>

NextFinalize ==
    \/ /\ Len(matches) < MaxSlices /\ rows = <<>>
       /\ \E m \in ScenarioPool : Aggregate(m)
    \/ \E t1 \in 1..MaxThreshold, t2 \in 1..MaxThreshold, n \in TopNs :
           Finalize(t1, t2, n)

SpecFinalize == InitAgg /\ [][NextFinalize]_vars

\* The composition rows of bucket key k, and the combo rows of (unit, k).
CompRowsOf(k) ==
    {i \in 1..Len(rows[1].comps) :
        rows[1].comps[i].patch \o <<":", ":">> \o rows[1].comps[i].comp_key = k}
ComboRowsOf(unit, k) ==
    UNION {{<<i, j>> : j \in {j \in 1..Len(rows[1].unit_item_meta[i].combos) :
                Join(rows[1].unit_item_meta[i].combos[j].combo, <<"|">>) = k}} :
           i \in {i \in 1..Len(rows[1].unit_item_meta) :
                    rows[1].unit_item_meta[i].unit = unit}}

\* The buckets that reach the threshold: all of them, and those of a unit.
CompsAtLeast(min) ==
    {k \in MapKeys(out[1].compBuckets) : CountsAt(out[1].compBuckets, k)[1] >= min}
CombosAtLeast(unit, min) ==
    {uk \in ComboKeys(out[1].unitCombos) :
        uk[1] = unit /\ ComboCountsAt(out[1].unitCombos, unit, uk[2])[1] >= min}

\* C8. No output row has picks below the threshold passed in; a bucket
\* below the threshold (so one with picks one below it) has no row; a
\* bucket at or above the threshold (so one with picks equal to it) has
\* exactly one row, with its picks, unless more buckets than the cap (20
\* compositions, topN combos of the unit) reach the threshold.
C8_ThresholdFilter ==
    rows # <<>> =>
        /\ \A i \in 1..Len(rows[1].comps) : rows[1].comps[i].picks >= minPicks
        /\ \A k \in MapKeys(out[1].compBuckets) :
               LET picks == CountsAt(out[1].compBuckets, k)[1]
               IN  /\ picks < minPicks => CompRowsOf(k) = {}
                   /\ (picks >= minPicks
                         /\ Cardinality(CompsAtLeast(minPicks)) <= TOP_COMPS)
                          => (/\ Cardinality(CompRowsOf(k)) = 1
                              /\ \A i \in CompRowsOf(k) : rows[1].comps[i].picks = picks)
        /\ \A i \in 1..Len(rows[1].unit_item_meta) :
               \A j \in 1..Len(rows[1].unit_item_meta[i].combos) :
                   rows[1].unit_item_meta[i].combos[j].picks >= minPicksItemCombo
        /\ \A uk \in ComboKeys(out[1].unitCombos) :
               LET picks == ComboCountsAt(out[1].unitCombos, uk[1], uk[2])[1]
                   mine  == ComboRowsOf(uk[1], uk[2])
               IN  /\ picks < minPicksItemCombo => mine = {}
                   /\ (picks >= minPicksItemCombo
                         /\ Cardinality(CombosAtLeast(uk[1], minPicksItemCombo)) <= topN)
                          => (/\ Cardinality(mine) = 1
                              /\ \A ij \in mine :
                                    rows[1].unit_item_meta[ij[1]].combos[ij[2]].picks = picks)

\* Among the finalized buckets are a composition bucket and a combo bucket
\* with picks equal to the threshold, which have a row, and one of each
\* with picks one below it, which have none.
C8_Witness ==
    /\ rows # <<>>
    /\ \E k \in MapKeys(out[1].compBuckets) :
           CountsAt(out[1].compBuckets, k)[1] = minPicks /\ CompRowsOf(k) # {}
    /\ \E k \in MapKeys(out[1].compBuckets) :
           CountsAt(out[1].compBuckets, k)[1] = minPicks - 1 /\ CompRowsOf(k) = {}
    /\ \E uk \in ComboKeys(out[1].unitCombos) :
           /\ ComboCountsAt(out[1].unitCombos, uk[1], uk[2])[1] = minPicksItemCombo
           /\ ComboRowsOf(uk[1], uk[2]) # {}
    /\ \E uk \in ComboKeys(out[1].unitCombos) :
           /\ ComboCountsAt(out[1].unitCombos, uk[1], uk[2])[1] = minPicksItemCombo - 1
           /\ ComboRowsOf(uk[1], uk[2]) = {}

---------------------------------------------------------------------------
(* pipeline.ts: successive runs of main().                                 *)

Patches == {STR_15_4, STR_15_3}

\* What pullMatchesForPlatform may return for one platform.
PlatformBatches == {<<M_A_XYZ, M_15_3>>, <<M_TWO, M_A_XY>>}

\* The file an earlier run for patch p leaves behind, having seen ms.
Snapshot(p, ms) ==
    LET r == aggregateCountsAndCombos(ms, p)
    IN  payloadOf(p, finalizeComps(r.compBuckets, MinPicksRun),
                  finalizeUnitCombos(r.unitCombos, MinPicksRun, DEFAULT_TOP_N),
                  r.compBuckets, r.unitCombos)

\* The matches of a batch as served by the p-th platform: match ids carry
\* the platform, so equal payloads of two platforms are two matches.
MatchIds(p, ms) == [i \in 1..Len(ms) |-> <<p, ms[i]>>]

\* What the first platform served to the earlier run for 15.4.
EarlierBatch == <<M_A_XYZ, M_A_XY>>

\* data/meta_15.4.json before the first run: absent, written for 15.4, or
\* holding the state of patch 15.3.
InitialFiles ==
    { <<>>,
      <<Snapshot(STR_15_4, EarlierBatch)>>,
      <<Snapshot(STR_15_3, <<M_15_3>>)>> }

\* The matches counted into an initial file.
InitialFetched(f) ==
    IF f = <<>> THEN <<>>
    ELSE IF f[1].patch = STR_15_4 THEN MatchIds(1, EarlierBatch)
    ELSE MatchIds(1, <<M_15_3>>)

\* async function loadPrevRaw(): the parsed file of the run's patch, or null.
loadPrevRaw == disk.versioned[PATCH]

\* Lines 192-202: the previous state is loaded, or the run starts fresh.
Load ==
    /\ pc = "start"
    /\ prev' = loadPrevRaw
    /\ compBuckets' = startingState(prev', PATCH).compBuckets
    /\ unitComboBuckets' = startingState(prev', PATCH).unitComboBuckets
    /\ pc' = "loaded"
    /\ fetched' = [fetched EXCEPT !.cur =
                       IF prev' # <<>> /\ prev'[1].patch = PATCH
                       THEN fetched.file[PATCH] ELSE <<>>]
    /\ UNCHANGED <<aggVars, finVars, mrgVars, normVars, colVars, retryVars, PATCH, MIN_PICKS,
                   MIN_PICKS_ITEM_COMBO, disk, platformsLeft, runs>>

\* Lines 206-222: one platform's matches are aggregated and merged.
Platform(ms) ==
    /\ pc \in {"loaded", "platforms"}
    /\ platformsLeft > 0
    /\ matches' = ms
    /\ patchFilter' = PATCH
    /\ out' = <<aggregateCountsAndCombos(ms, PATCH)>>
    /\ compBuckets' = mergeCompBuckets(compBuckets, out'[1].compBuckets)
    /\ unitComboBuckets' = mergeUnitCombos(unitComboBuckets, out'[1].unitCombos)
    /\ platformsLeft' = platformsLeft - 1
    /\ pc' = "platforms"
    /\ fetched' = [fetched EXCEPT !.cur =
                       @ \o MatchIds(MaxPlatforms - platformsLeft + 1, ms)]
    /\ UNCHANGED <<finVars, mrgVars, normVars, colVars, retryVars, PATCH, MIN_PICKS,
                   MIN_PICKS_ITEM_COMBO, disk, prev, runs>>

\* Lines 224-248: the outputs are finalized and both files are written.
Finish ==
    /\ pc \in {"loaded", "platforms"}
    /\ platformsLeft = 0
    /\ minPicks' = MIN_PICKS
    /\ minPicksItemCombo' = MIN_PICKS_ITEM_COMBO
    /\ topN' = DEFAULT_TOP_N
    /\ rows' = <<[comps |-> finalizeComps(compBuckets, MIN_PICKS),
                  unit_item_meta |-> finalizeUnitCombos(unitComboBuckets,
                                         MIN_PICKS_ITEM_COMBO, DEFAULT_TOP_N)]>>
    /\ LET payload == payloadOf(PATCH, rows'[1].comps, rows'[1].unit_item_meta,
                                compBuckets, unitComboBuckets)
       IN  disk' = [versioned |-> [disk.versioned EXCEPT ![PATCH] = <<payload>>],
                    current |-> <<payload>>]
    /\ pc' = "done"
    /\ runs' = runs + 1
    /\ fetched' = [fetched EXCEPT !.file[PATCH] = fetched.cur]
    /\ UNCHANGED <<aggVars, mrgVars, normVars, colVars, retryVars, PATCH, MIN_PICKS,
                   MIN_PICKS_ITEM_COMBO, prev, compBuckets, unitComboBuckets,
                   platformsLeft>>

\* The pipeline is started again, for the same or another patch.
Start ==
    /\ pc = "done"
    /\ runs < MaxRuns
    /\ PATCH' \in Patches
    /\ pc' = "start"
    /\ prev' = <<>> /\ compBuckets' = <<>> /\ unitComboBuckets' = <<>>
    /\ platformsLeft' = MaxPlatforms
    /\ matches' = <<>> /\ patchFilter' = <<>> /\ out' = <<>>
    /\ minPicks' = 0 /\ minPicksItemCombo' = 0 /\ topN' = 0 /\ rows' = <<>>
    /\ fetched' = [fetched EXCEPT !.cur = <<>>]
    /\ UNCHANGED <<mrgVars, normVars, colVars, retryVars, MIN_PICKS, MIN_PICKS_ITEM_COMBO, disk, runs>>

Init ==
    /\ PATCH \in Patches
    /\ MIN_PICKS = MinPicksRun /\ MIN_PICKS_ITEM_COMBO = MinPicksRun
    /\ \E f \in InitialFiles :
           /\ disk = [versioned |-> [p \in Patches |-> IF p = STR_15_4 THEN f ELSE <<>>],
                      current |-> f]
           /\ fetched = [cur |-> <<>>,
                         file |-> [p \in Patches |->
                                     IF p = STR_15_4 THEN InitialFetched(f) ELSE <<>>]]
    /\ pc = "start" /\ prev = <<>>
    /\ compBuckets = <<>> /\ unitComboBuckets = <<>>
    /\ platformsLeft = MaxPlatforms /\ runs = 0
    /\ IdleAgg /\ IdleFin /\ IdleMrg /\ IdleNorm /\ IdleCol /\ IdleRetry

Next ==
    \/ Load
    \/ \E ms \in PlatformBatches : Platform(ms)
    \/ Finish
    \/ Start

Spec == Init /\ [][Next]_vars

\* The composition counts and the combo counts a state file holds.
StoredCompCounts(file) ==
    {<<r.key, r.picks, r.wins, r.sumPlacement,
       {<<u[1], Range(u[2])>> : u \in Range(r.units)}>> : r \in Range(file.__comp)}
StoredCombos(file) ==
    {<<r.unit, Range(r.combos)>> : r \in Range(file.__unitCombos)}

\* C9. When the run has loaded its previous state: if a stored state
\* exists and its patch equals the target patch, the starting maps hold
\* exactly the stored buckets; otherwise (no file, or another patch) both
\* starting maps are empty. In a run that found a state of another patch,
\* no bucket of that patch is in the maps at any later point.
C9_PatchChangeReset ==
    /\ pc = "loaded" =>
           IF prev # <<>> /\ prev[1].patch = PATCH
           THEN /\ CompCountsView(compBuckets) = StoredCompCounts(prev[1])
                /\ ComboView(unitComboBuckets) = StoredCombos(prev[1])
           ELSE compBuckets = <<>> /\ unitComboBuckets = <<>>
    /\ pc \in {"loaded", "platforms", "done"} /\ prev # <<>> /\ prev[1].patch # PATCH
           => \A i \in 1..Len(compBuckets) : compBuckets[i].v.patch = PATCH

\* A run for one patch found the non-empty state of another patch and
\* starts with empty maps.
C9_Witness ==
    /\ pc = "loaded"
    /\ prev # <<>> /\ prev[1].patch # PATCH
    /\ prev[1].__comp # <<>> /\ prev[1].__unitCombos # <<>>
    /\ compBuckets = <<>> /\ unitComboBuckets = <<>>

---------------------------------------------------------------------------
(* normalizePatch applied to version strings.                              *)

VersionAlphabet == {"1", "5", ".", "a"}

\* Absent input, and every string of up to MaxVersionLen characters.
VersionInputs ==
    {<<>>} \cup {<<str>> : str \in UNION {[1..n -> VersionAlphabet] : n \in 0..MaxVersionLen}}

Normalize ==
    /\ patchOut = <<>>
    /\ patchOut' = <<normalizePatch(v)>>
    /\ UNCHANGED <<v, aggVars, finVars, mrgVars, pipeVars, colVars, retryVars>>

InitNorm ==
    /\ v \in VersionInputs /\ patchOut = <<>>
    /\ IdleAgg /\ IdleFin /\ IdleMrg /\ IdlePipe /\ IdleCol /\ IdleRetry

NextNorm == Normalize

SpecNorm == InitNorm /\ [][NextNorm]_vars

AllDigits(str, a, b) == \A i \in a..b : str[i] \in {"1", "5"}

\* The digits-dot-digits substrings of str, as <<i, j, k>>: digits from i
\* to j, a dot at j + 1, digits from j + 2 to k.
DigitsDotDigits(str) ==
    {ijk \in (1..Len(str)) \X (1..Len(str)) \X (1..Len(str)) :
        /\ ijk[1] <= ijk[2] /\ ijk[2] + 2 <= ijk[3]
        /\ AllDigits(str, ijk[1], ijk[2])
        /\ str[ijk[2] + 1] = "."
        /\ AllDigits(str, ijk[2] + 2, ijk[3])}

\* The first of them: the leftmost start, and from there the longest.
FirstDigitsDotDigits(str) ==
    CHOOSE ijk \in DigitsDotDigits(str) :
        \A other \in DigitsDotDigits(str) :
            \/ ijk[1] < other[1]
            \/ ijk[1] = other[1] /\ other[3] <= ijk[3]

MajorMinor(str) ==
    LET ijk == FirstDigitsDotDigits(str)
    IN  SubSeq(str, ijk[1], ijk[2]) \o <<".">> \o SubSeq(str, ijk[2] + 2, ijk[3])

HasVersion == v # <<>> /\ DigitsDotDigits(v[1]) # {}

\* C10 as claimed. normalizePatch returns major.minor of the first
\* digits-dot-digits substring, and "unknown" for every input without one,
\* absent or not.
C10_UnknownSentinel ==
    patchOut # <<>> =>
        patchOut[1] = IF HasVersion THEN MajorMinor(v[1]) ELSE STR_UNKNOWN

\* C10 as amended. normalizePatch returns major.minor of the first
\* digits-dot-digits substring; without one it returns the input string
\* unchanged, and "unknown" only when the input is absent.
C10_UnknownOnlyWhenAbsent ==
    patchOut # <<>> =>
        patchOut[1] = IF HasVersion THEN MajorMinor(v[1])
                      ELSE IF v = <<>> THEN STR_UNKNOWN ELSE v[1]

\* A string with two digits-dot-digits substrings was normalized to the
\* first one.
C10_Witness ==
    /\ patchOut # <<>> /\ HasVersion
    /\ Cardinality({ijk[1] : ijk \in DigitsDotDigits(v[1])}) >= 2
    /\ patchOut[1] # v[1]

---------------------------------------------------------------------------
(* C11: buckets and patches.                                               *)

\* The key of the composition bucket a slice is counted in.
BucketKeyOf(sl) == sl.patch \o <<":", ":">> \o compSignature(sl.units)

\* The patches of the slices counted in composition bucket key.
PatchesInComp(key) ==
    {CountedSlices[n].patch :
        n \in {i \in 1..Len(CountedSlices) : BucketKeyOf(CountedSlices[i]) = key}}

\* The patches of the slices counted in the combo bucket (cid, k).
PatchesInCombo(cid, k) ==
    {CountedSlices[n].patch :
        n \in {i \in 1..Len(CountedSlices) : InstancesIn(CountedSlices[i], cid, k) >= 1}}

\* C11 as claimed. For every patch filter, the empty one included, no
\* composition bucket and no unit-combo bucket holds counts of slices of
\* two different normalized patches, "unknown" included.
C11_NoCrossPatchMixing ==
    out # <<>> =>
        /\ \A key \in MapKeys(out[1].compBuckets) :
               Cardinality(PatchesInComp(key)) <= 1
        /\ \A uk \in ComboKeys(out[1].unitCombos) :
               Cardinality(PatchesInCombo(uk[1], uk[2])) <= 1

\* Under the empty filter one combo bucket of unit A holds the counts of a
\* slice of a named patch and of a slice without game_version.
C11_Witness ==
    /\ out # <<>> /\ patchFilter = <<>>
    /\ {STR_15_4, STR_UNKNOWN} \subseteq PatchesInCombo(<<"A">>, KEY_XYZ)
    /\ ComboCountsAt(out[1].unitCombos, <<"A">>, KEY_XYZ)[1]
           = InstanceCounts(<<"A">>, KEY_XYZ)[1]
    /\ \A key \in MapKeys(out[1].compBuckets) : Cardinality(PatchesInComp(key)) = 1

---------------------------------------------------------------------------
(* C12: the bucket invariant.                                              *)

\* The counters of a bucket are those of at least one slice with
\* placements between 1 and 9.
CountersOK(c) ==
    /\ c.picks >= 1
    /\ 0 <= c.wins /\ c.wins <= c.picks
    /\ c.picks <= c.sumPlacement /\ c.sumPlacement <= 9 * c.picks

CompMapOK(m) ==
    \A i \in 1..Len(m) :
        /\ CountersOK(m[i].v)
        /\ \A j \in 1..Len(m[i].v.units) :
               /\ m[i].v.units[j].k \in Range(m[i].v.unit_set)
               /\ \A e \in Range(m[i].v.units[j].v) : e.v \in Nat \ {0}

ComboMapOK(uc) ==
    \A i \in 1..Len(uc) : \A e \in Range(uc[i].v) : CountersOK(e.v)

\* C12. In every partial state aggregated from slices with placement 1..8
\* or absent, and in every merge of such states, each composition bucket
\* and each combo bucket has picks >= 1, 0 <= wins <= picks and
\* picks <= sumPlacement <= 9 * picks; every item count is a positive
\* integer and every unit id of a bucket's units map is in its unit_set.
C12_BucketInvariant ==
    merged # <<>> =>
        /\ \A i \in 1..3 :
               /\ CompMapOK(PartState(i).compBuckets)
               /\ ComboMapOK(PartState(i).unitCombos)
        /\ \A g \in {"ab_c", "a_bc", "ba_c"} :
               /\ CompMapOK(merged[1].comp[g])
               /\ ComboMapOK(merged[1].combos[g])

\* Two partial states that hold the same composition were merged into a
\* bucket with picks 2 and wins 1, and a bucket of a slice without
\* placement has sumPlacement 9 * picks.
C12_Witness ==
    /\ merged # <<>>
    /\ \E i, j \in 1..3 :
           /\ i # j
           /\ \E k \in MapKeys(PartState(i).compBuckets) \cap MapKeys(PartState(j).compBuckets) :
                  CountsAt(merged[1].comp.ab_c, k)[1] = 2
                      /\ CountsAt(merged[1].comp.ab_c, k)[2] = 1
    /\ \E k \in MapKeys(merged[1].comp.ab_c) :
           CountsAt(merged[1].comp.ab_c, k)[3] = 9 * CountsAt(merged[1].comp.ab_c, k)[1]
    /\ \E uk \in ComboKeys(merged[1].combos.ab_c) :
           ComboCountsAt(merged[1].combos.ab_c, uk[1], uk[2])[1] >= 2

---------------------------------------------------------------------------
(* finalizeComps and finalizeUnitCombos applied to more buckets than the   *)
(* caps of 20 rows and topN combos.                                        *)

RankChars == <<"A", "B", "a", "k", "n">>

\* The i-th of the unit ids of the ranked compositions, a unit without items.
RankUnit(i) ==
    [character_id |-> <<RankChars[((i - 1) \div Len(RankChars)) + 1],
                        RankChars[((i - 1) % Len(RankChars)) + 1]>>,
     items |-> <<<<>>>>, itemNames |-> <<>>]

\* The placements of the slices of one composition: average 1.00 of one
\* pick, 1.00 of two picks, 4.67 of three picks.
RankKinds == {<<1>>, <<1, 1>>, <<4, 5, 5>>}

RankPatterns == [1..RankPeriod -> RankKinds]

\* n matches, the i-th holding the slices of the i-th composition.
RankMatches(pattern, n) ==
    [i \in 1..n |->
        LET kind == pattern[((i - 1) % RankPeriod) + 1]
        IN  Match(<<VER_15_4_1>>,
                  [j \in 1..Len(kind) |-> Participant(<<kind[j]>>, <<RankUnit(i)>>)])]

\* A unit B of six items (20 combos), the same unit with four of them and
\* a better placement, and with three of them and the worst placement
\* beside a unit A of three items.
M_SIX   == Match(<<VER_15_4_1>>, <<Participant(<<4>>,
               <<RawUnit("B", <<<<"a">>, <<"k">>, <<"n">>, <<"o">>, <<"u">>, W>>)>>)>>)
M_FOUR  == Match(<<VER_15_4_1>>, <<Participant(<<1>>,
               <<RawUnit("B", <<<<"n">>, <<"o">>, <<"u">>, W>>)>>)>>)
M_THREE == Match(<<VER_15_4_1>>,
               <<Participant(<<8>>, <<RawUnit("B", <<<<"a">>, <<"k">>, <<"n">>>>)>>),
                 Participant(<<2>>, <<RawUnit("A", <<X, Y, Z>>)>>)>>)

ComboBatches == {<<>>, <<M_SIX, M_FOUR>>, <<M_SIX, M_FOUR, M_THREE, M_SIX>>}

\* No composition, one, and as many as the cap of 20 give or take.
RankSizes == {0, 1} \cup ((TOP_COMPS - 1)..MaxRankBuckets)

RankInputs ==
    {RankMatches(p, n) \o cb : p \in RankPatterns, n \in RankSizes, cb \in ComboBatches}

\* Lines 217-221 of main with one match per batch: the next match of the
\* list is aggregated and merged into the accumulating maps.
MergeNext ==
    /\ pc = "platforms" /\ platformsLeft > 0
    /\ LET add == aggregateCountsAndCombos(
                      <<matches[Len(matches) - platformsLeft + 1]>>, PATCH)
       IN  /\ out' = <<add>>
           /\ compBuckets' = mergeCompBuckets(compBuckets, add.compBuckets)
           /\ unitComboBuckets' = mergeUnitCombos(unitComboBuckets, add.unitCombos)
    /\ platformsLeft' = platformsLeft - 1
    /\ UNCHANGED <<matches, patchFilter, finVars, mrgVars, normVars, colVars, retryVars, PATCH,
                   MIN_PICKS, MIN_PICKS_ITEM_COMBO, disk, pc, prev, runs, fetched>>

\* Lines 225-226 of main, for thresholds t1, t2 and cap n.
Rank(t1, t2, n) ==
    /\ pc = "platforms" /\ platformsLeft = 0
    /\ minPicks' = t1 /\ minPicksItemCombo' = t2 /\ topN' = n
    /\ rows' = <<[comps |-> finalizeComps(compBuckets, t1),
                  unit_item_meta |-> finalizeUnitCombos(unitComboBuckets, t2, n)]>>
    /\ compBuckets' = compBucketsAfterFinalize(compBuckets, t1)
    /\ unitComboBuckets' = unitCombosAfterFinalize(unitComboBuckets, t2, n)
    /\ pc' = "done"
    /\ UNCHANGED <<aggVars, mrgVars, normVars, colVars, retryVars, PATCH, MIN_PICKS,
                   MIN_PICKS_ITEM_COMBO, disk, prev, platformsLeft, runs, fetched>>

InitRank ==
    /\ matches \in RankInputs /\ patchFilter = STR_15_4 /\ out = <<>>
    /\ PATCH = STR_15_4 /\ MIN_PICKS = 0 /\ MIN_PICKS_ITEM_COMBO = 0
    /\ disk = <<>> /\ pc = "platforms" /\ prev = <<>>
    /\ compBuckets = <<>> /\ unitComboBuckets = <<>>
    /\ platformsLeft = Len(matches) /\ runs = 0 /\ fetched = <<>>
    /\ IdleFin /\ IdleMrg /\ IdleNorm /\ IdleCol /\ IdleRetry

NextRank ==
    \/ MergeNext
    \/ \E t \in 1..MaxThreshold, n \in TopNs : Rank(t, t, n)

SpecRank == InitRank /\ [][NextRank]_vars

\* The accumulated composition buckets that reach the threshold, and those
\* of them that have no row.
PassingComps == {k \in MapKeys(compBuckets) : CountsAt(compBuckets, k)[1] >= minPicks}
DroppedComps == {k \in PassingComps : CompRowsOf(k) = {}}

\* The row of a bucket, as far as the order needs it.
RankOf(c) == [avg_placement |-> Fixed2(c.sumPlacement, c.picks), picks |-> c.picks]

Sorted(rs) ==
    \A i, j \in 1..Len(rs) : i < j => ~rowBefore(rs[j], rs[i])

\* C13. finalizeComps returns at most 20 rows, sorted by avg_placement
\* ascending and, for equal avg_placement, by picks descending; as many
\* rows as buckets reach the threshold, or 20 when more do, and then no
\* bucket left out ranks strictly before a row that is kept.
C13_CompRanking ==
    rows # <<>> =>
        LET comps == rows[1].comps
        IN  /\ Len(comps) <= TOP_COMPS
            /\ Sorted(comps)
            /\ Len(comps) = IF Cardinality(PassingComps) > TOP_COMPS THEN TOP_COMPS
                            ELSE Cardinality(PassingComps)
            /\ \A i \in 1..Len(comps) :
                   LET k == comps[i].patch \o <<":", ":">> \o comps[i].comp_key
                   IN  /\ k \in PassingComps
                       /\ CompRowsOf(k) = {i}
                       /\ comps[i].picks = CountsAt(compBuckets, k)[1]
                       /\ comps[i].avg_placement = RankOf(MapGet(compBuckets, k)).avg_placement
            /\ \A k \in DroppedComps : \A i \in 1..Len(comps) :
                   ~rowBefore(RankOf(MapGet(compBuckets, k)), comps[i])

\* More than 20 buckets reached the threshold; the rows hold two average
\* placements and, under one of them, two numbers of picks; and a bucket
\* inserted after the first 20 has a row while an earlier one has none.
C13_Witness ==
    /\ rows # <<>>
    /\ Cardinality(PassingComps) > TOP_COMPS
    /\ \E i, j \in 1..Len(rows[1].comps) :
           rows[1].comps[i].avg_placement # rows[1].comps[j].avg_placement
    /\ \E i, j \in 1..Len(rows[1].comps) :
           /\ rows[1].comps[i].avg_placement = rows[1].comps[j].avg_placement
           /\ rows[1].comps[i].picks # rows[1].comps[j].picks
    /\ \E a, b \in 1..Len(compBuckets) :
           /\ a <= TOP_COMPS /\ b > TOP_COMPS
           /\ compBuckets[a].k \in DroppedComps
           /\ CompRowsOf(compBuckets[b].k) # {}

---------------------------------------------------------------------------
(* C14: the ranking of the unit combos.                                    *)

\* The combos of a unit that reach the threshold, and the entries of a
\* unit in the output.
PassingCombos(unit) ==
    {e.k : e \in {e \in Range(MapGet(unitComboBuckets, unit)) :
                     e.v.picks >= minPicksItemCombo}}
EntriesOf(unit) ==
    {i \in 1..Len(rows[1].unit_item_meta) : rows[1].unit_item_meta[i].unit = unit}

\* C14. finalizeUnitCombos returns one entry for every unit with a combo
\* bucket at or above the threshold and none for any other unit; the
\* combos of an entry are sorted by avg_placement ascending, then picks
\* descending; they are as many as the unit's combos that reach the
\* threshold, or topN when more do (topN is 10 unless given), and then no
\* combo left out ranks strictly before one that is kept.
C14_ComboRanking ==
    rows # <<>> =>
        /\ \A i \in 1..Len(rows[1].unit_item_meta) :
               rows[1].unit_item_meta[i].unit \in MapKeys(unitComboBuckets)
        /\ \A unit \in MapKeys(unitComboBuckets) :
               LET pass == PassingCombos(unit)
                   bag  == MapGet(unitComboBuckets, unit)
               IN  IF pass = {} THEN EntriesOf(unit) = {}
                   ELSE /\ Cardinality(EntriesOf(unit)) = 1
                        /\ \A e \in EntriesOf(unit) :
                               LET combos == rows[1].unit_item_meta[e].combos
                                   keyAt(j) == Join(combos[j].combo, <<"|">>)
                               IN  /\ Len(combos) <= topN
                                   /\ Len(combos) = IF Cardinality(pass) > topN THEN topN
                                                    ELSE Cardinality(pass)
                                   /\ Sorted(combos)
                                   /\ \A j \in 1..Len(combos) :
                                          /\ keyAt(j) \in pass
                                          /\ \A j2 \in 1..Len(combos) :
                                                 keyAt(j2) = keyAt(j) => j2 = j
                                          /\ combos[j].picks = MapGet(bag, keyAt(j)).picks
                                          /\ combos[j].avg_placement
                                                 = RankOf(MapGet(bag, keyAt(j))).avg_placement
                                   /\ \A k \in pass \ {keyAt(j) : j \in 1..Len(combos)} :
                                          \A j \in 1..Len(combos) :
                                              ~rowBefore(RankOf(MapGet(bag, k)), combos[j])

\* With the default topN of 10, unit B has more than 10 combos at the
\* threshold and an entry of 10 combos of two average placements, whose
\* first combo was not the first one counted; unit A has a combo bucket,
\* none at the threshold, and no entry.
C14_Witness ==
    /\ rows # <<>> /\ topN = DEFAULT_TOP_N
    /\ MapHas(unitComboBuckets, <<"B">>) /\ MapHas(unitComboBuckets, <<"A">>)
    /\ Cardinality(PassingCombos(<<"B">>)) > DEFAULT_TOP_N
    /\ PassingCombos(<<"A">>) = {} /\ EntriesOf(<<"A">>) = {}
    /\ \E e \in EntriesOf(<<"B">>) :
           LET combos == rows[1].unit_item_meta[e].combos
           IN  /\ Len(combos) = DEFAULT_TOP_N
               /\ combos[1].avg_placement # combos[DEFAULT_TOP_N].avg_placement
               /\ Join(combos[1].combo, <<"|">>) # MapGet(unitComboBuckets, <<"B">>)[1].k

---------------------------------------------------------------------------
(* C15: finalization leaves the buckets alone and is repeatable.           *)

C15_Empty ==
    /\ rows # <<>> /\ compBuckets = <<>> /\ unitComboBuckets = <<>>
    /\ rows[1].comps = <<>> /\ rows[1].unit_item_meta = <<>>

---------------------------------------------------------------------------
(* C16: every participant slice is counted once.                           *)

\* The participant slices of the distinct matches counted into main's
\* maps, as <<match id, index of the participant>>, and the slice itself.
DistinctSlices ==
    UNION {{<<id, i>> : i \in 1..Len(id[2].participants[1])} :
           id \in {d \in Range(fetched.cur) :
                      normalizePatch(d[2].game_version) = PATCH}}
SliceAt(s) ==
    [patch |-> normalizePatch(s[1][2].game_version),
     placement |-> s[1][2].participants[1][s[2]].placement,
     units |-> toUnits(s[1][2].participants[1][s[2]].units)]

\* C16 as claimed. Across the platforms of a run and across resumed runs
\* for one patch, every participant of a match is counted at most once:
\* the picks of a composition bucket are the number of distinct slices of
\* its signature, the picks of a combo bucket the number of unit instances
\* of distinct slices that hold the combo, however often a match was
\* fetched.
C16_CountedOnce ==
    pc \in {"loaded", "platforms", "done"} =>
        /\ \A key \in MapKeys(compBuckets) \cup {BucketKeyOf(SliceAt(s)) : s \in DistinctSlices} :
               CountsAt(compBuckets, key)[1]
                   = Cardinality({s \in DistinctSlices : BucketKeyOf(SliceAt(s)) = key})
        /\ \A uk \in ComboKeys(unitComboBuckets) :
               ComboCountsAt(unitComboBuckets, uk[1], uk[2])[1]
                   = Cardinality(UNION {{<<s, j>> : j \in {j \in 1..Len(SliceAt(s).units) :
                                            /\ SliceAt(s).units[j].character_id = uk[1]
                                            /\ uk[2] \in Sub3Keys(SliceAt(s).units[j].items)}} :
                                        s \in DistinctSlices})

\* A resumed run fetched a match that an earlier run for the same patch had
\* counted into the stored state, and the bucket of its slice has more
\* picks than there are distinct slices of that signature.
C16_Witness ==
    /\ pc = "platforms" /\ prev # <<>> /\ prev[1].patch = PATCH
    /\ \E a, b \in 1..Len(fetched.cur) :
           /\ a < b /\ fetched.cur[a] = fetched.cur[b]
           /\ a <= Len(fetched.file[PATCH]) /\ b > Len(fetched.file[PATCH])
    /\ \E key \in MapKeys(compBuckets) :
           CountsAt(compBuckets, key)[1]
               > Cardinality({s \in DistinctSlices : BucketKeyOf(SliceAt(s)) = key})

---------------------------------------------------------------------------
(* C17: resuming from the state file.                                      *)

\* All matches counted into main's maps, those of earlier runs first, and
\* their aggregation in one call.
AllCounted == [i \in 1..Len(fetched.cur) |-> fetched.cur[i][2]]
AggregatedAtOnce == aggregateCountsAndCombos(AllCounted, PATCH)

\* C17. The maps of a run that resumed from the serialized state of
\* earlier runs and merged the aggregation of its own matches equal, by key
\* and by counts, comp_key and unit_set, the aggregation in one call of the
\* earlier matches followed by its own; and deserializing what was
\* serialized gives back the maps.
C17_ResumeEquivalence ==
    /\ pc \in {"loaded", "platforms", "done"} =>
           /\ CompView(compBuckets) = CompView(AggregatedAtOnce.compBuckets)
           /\ ComboView(unitComboBuckets) = ComboView(AggregatedAtOnce.unitCombos)
    /\ pc = "done" =>
           /\ deserializeCompBuckets(disk.versioned[PATCH][1].__comp) = compBuckets
           /\ deserializeUnitCombos(disk.versioned[PATCH][1].__unitCombos)
                  = unitComboBuckets
           /\ deserializeCompBuckets(serializeCompBuckets(compBuckets)) = compBuckets
           /\ deserializeUnitCombos(serializeUnitCombos(unitComboBuckets))
                  = unitComboBuckets

\* A run resumed from a stored state with buckets, and merged matches that
\* added to a stored composition bucket and to a stored combo bucket and
\* opened a new composition bucket.
C17_Witness ==
    /\ pc = "platforms" /\ prev # <<>> /\ prev[1].patch = PATCH
    /\ LET stored == deserializeCompBuckets(prev[1].__comp)
           combos == deserializeUnitCombos(prev[1].__unitCombos)
       IN  /\ \E k \in MapKeys(stored) :
                  /\ CountsAt(compBuckets, k)[1] > CountsAt(stored, k)[1]
                  /\ MapGet(stored, k).units # <<>>
           /\ \E k \in MapKeys(compBuckets) : ~MapHas(stored, k)
           /\ \E uk \in ComboKeys(combos) :
                  ComboCountsAt(unitComboBuckets, uk[1], uk[2])[1]
                      > ComboCountsAt(combos, uk[1], uk[2])[1]

---------------------------------------------------------------------------
(* mergeCompBuckets and mergeUnitCombos on objects: a Map holds references *)
(* to its buckets, and heap holds the buckets.                             *)

RECURSIVE Flatten(_)
Flatten(ss) == IF ss = <<>> THEN <<>> ELSE ss[1] \o Flatten(Tail(ss))

\* The objects of a result of aggregateCountsAndCombos put on heap h: the
\* heap, and the two maps with the object ids in place of the buckets.
allocate(h, st) ==
    LET n      == Len(st.compBuckets)
        sizes  == [a \in 1..Len(st.unitCombos) |-> Len(st.unitCombos[a].v)]
        before(a) == SumSeq(SubSeq(sizes, 1, a - 1))
    IN  [heap |-> h \o [i \in 1..n |-> st.compBuckets[i].v]
                    \o Flatten([a \in 1..Len(st.unitCombos) |->
                                  [b \in 1..sizes[a] |-> st.unitCombos[a].v[b].v]]),
         comp |-> [i \in 1..n |-> [k |-> st.compBuckets[i].k, v |-> Len(h) + i]],
         combos |-> [a \in 1..Len(st.unitCombos) |->
                       [k |-> st.unitCombos[a].k,
                        v |-> [b \in 1..sizes[a] |->
                                 [k |-> st.unitCombos[a].v[b].k,
                                  v |-> Len(h) + n + before(a) + b]]]]]

\* The buckets a map of references stands for.
derefComp(h, m) == [i \in 1..Len(m) |-> [k |-> m[i].k, v |-> h[m[i].v]]]
derefCombos(h, uc) ==
    [a \in 1..Len(uc) |-> [k |-> uc[a].k, v |-> derefComp(h, uc[a].v)]]

RECURSIVE mergeCompBucketsRef(_, _, _)
\* mergeCompBuckets(base, add), lines 208-219: base.set(k, c) stores the
\* object of add itself; otherwise the counts go to the object base holds.
mergeCompBucketsRef(h, base, add) ==
    IF add = <<>> THEN [heap |-> h, map |-> base]
    ELSE LET k == add[1].k
             c == add[1].v
         IN  IF ~MapHas(base, k)
             THEN mergeCompBucketsRef(h, MapSet(base, k, c), Tail(add))
             ELSE LET cur == MapGet(base, k)
                  IN  mergeCompBucketsRef(
                          [h EXCEPT ![cur] =
                              [addCounts(h[cur], h[c]) EXCEPT
                                  !.units = mergeUnits(@, h[c].units)]],
                          base, Tail(add))

RECURSIVE mergeComboBagRef(_, _, _)
\* Lines 230-238: { ...c } is a new object with the counts of c.
mergeComboBagRef(h, dest, bag) ==
    IF bag = <<>> THEN [heap |-> h, map |-> dest]
    ELSE LET combo == bag[1].k
             c     == bag[1].v
         IN  IF ~MapHas(dest, combo)
             THEN mergeComboBagRef(Append(h, h[c]), MapSet(dest, combo, Len(h) + 1),
                                   Tail(bag))
             ELSE mergeComboBagRef(
                      [h EXCEPT ![MapGet(dest, combo)] = addCounts(@, h[c])],
                      dest, Tail(bag))

RECURSIVE mergeUnitCombosRef(_, _, _)
\* mergeUnitCombos(base, add), lines 227-239.
mergeUnitCombosRef(h, base, add) ==
    IF add = <<>> THEN [heap |-> h, map |-> base]
    ELSE LET unit == add[1].k
             dest == IF MapHas(base, unit) THEN MapGet(base, unit) ELSE <<>>
             done == mergeComboBagRef(h, dest, add[1].v)
         IN  mergeUnitCombosRef(done.heap, MapSet(base, unit, done.map), Tail(add))

\* Lines 217-221 of main: a batch is aggregated and merged into the
\* accumulating maps; the result of the aggregation stays reachable.
MergeDelta(ms) ==
    /\ Len(deltaRefs) < MaxDeltas
    /\ LET made  == aggregateCountsAndCombos(ms, patchFilter)
           al    == allocate(heap, made)
           comp  == mergeCompBucketsRef(al.heap, baseRefs.comp, al.comp)
           combo == mergeUnitCombosRef(comp.heap, baseRefs.combos, al.combos)
       IN  /\ heap' = combo.heap
           /\ baseRefs' = [comp |-> comp.map, combos |-> combo.map]
           /\ deltaRefs' = Append(deltaRefs,
                                  [comp |-> al.comp, combos |-> al.combos, made |-> made])
           /\ matches' = matches \o ms
           /\ out' = <<made>>
    /\ UNCHANGED <<patchFilter, finVars, parts, merged, normVars, colVars, retryVars, pipeVars>>

InitAlias ==
    /\ heap = <<>> /\ baseRefs = [comp |-> <<>>, combos |-> <<>>] /\ deltaRefs = <<>>
    /\ parts = <<>> /\ merged = <<>>
    /\ matches = <<>> /\ out = <<>> /\ patchFilter = STR_15_4
    /\ IdleFin /\ IdleNorm /\ IdlePipe /\ IdleCol /\ IdleRetry

NextAlias == \E m \in MergePool : MergeDelta(<<m>>)

SpecAlias == InitAlias /\ [][NextAlias]_vars

\* Delta i still holds the buckets it was made with.
CompUndisturbed(i) ==
    derefComp(heap, deltaRefs[i].comp) = deltaRefs[i].made.compBuckets
CombosUndisturbed(i) ==
    derefCombos(heap, deltaRefs[i].combos) = deltaRefs[i].made.unitCombos

\* C18 as claimed. After any sequence of merges into one accumulating
\* base, every delta holds the picks, wins, sumPlacement and item counts it
\* had before it was merged, in its composition buckets and in its combo
\* buckets, also when base had no bucket for one of its keys.
C18_DeltaUndisturbed ==
    \A i \in 1..Len(deltaRefs) : CompUndisturbed(i) /\ CombosUndisturbed(i)

\* A delta was merged while base had no bucket for its key, a later delta
\* with the same key was merged, and the bucket of the first delta now
\* holds the picks of both; its combo buckets are as they were.
C18_Witness ==
    \E i, j \in 1..Len(deltaRefs) :
        /\ i < j
        /\ \E e \in Range(deltaRefs[i].comp) :
               /\ \A n \in 1..(i - 1) : ~MapHas(deltaRefs[n].comp, e.k)
               /\ MapHas(deltaRefs[j].comp, e.k)
               /\ MapGet(baseRefs.comp, e.k) = e.v
               /\ heap[e.v].picks > MapGet(deltaRefs[i].made.compBuckets, e.k).picks
        /\ deltaRefs[i].made.unitCombos # <<>>
        /\ CombosUndisturbed(i)

---------------------------------------------------------------------------
(* The collector: run() of collector.ts, run after run over the same       *)
(* data/state/seen_match_ids.json and the same staging file.               *)

MaxCollectorRuns == 2
SEEN_CAP == 500000

CollectorPlatforms == <<"NA1", "EUW1">>

\* The match ids the seeded players of a platform have played.
PlatformMatchIds(platform) ==
    IF platform = "NA1" THEN {"NA1_1", "NA1_2"} ELSE {"EUW1_1"}

\* The participants of a match payload, each by its placement; <<>> is a
\* participant entry that is null.
ParticipantsOf(mid) ==
    IF mid = "NA1_2" THEN << <<3>> >> ELSE << <<1>>, <<2>> >>

\* What getMatch can answer for a match id: a rejection, a payload one of
\* the queue / patch / age filters drops, a well-formed payload that passes
\* them, and a passing payload whose last participant entry is null.
Payloads(mid) ==
    LET ps == ParticipantsOf(mid)
    IN  { [thrown |-> TRUE,  pass |-> FALSE, participants |-> <<>>],
          [thrown |-> FALSE, pass |-> FALSE, participants |-> ps],
          [thrown |-> FALSE, pass |-> TRUE,  participants |-> ps],
          [thrown |-> FALSE, pass |-> TRUE,
           participants |-> [ps EXCEPT ![Len(ps)] = <<>>]] }

collectorSlice(mid, platform, p) ==
    [match_id |-> mid, platform |-> platform, placement |-> p[1]]

\* The for loop of lines 195-213: one slice is pushed per participant, and
\* reading p.units of a null participant throws, which leaves the slices
\* pushed so far in the list.
RECURSIVE pushSlices(_, _, _, _)
pushSlices(queued, mid, platform, ps) ==
    IF ps = <<>> THEN [lines |-> queued, thrown |-> FALSE]
    ELSE IF Head(ps) = <<>> THEN [lines |-> queued, thrown |-> TRUE]
    ELSE pushSlices(Append(queued, collectorSlice(mid, platform, Head(ps))),
                    mid, platform, Tail(ps))

SetHas(set, k) == \E i \in 1..Len(set) : set[i] = k
SetAdd(set, k) == IF SetHas(set, k) THEN set ELSE Append(set, k)

\* Array.from(seen).slice(-500000)
keepOf(set) ==
    IF Len(set) <= SEEN_CAP THEN set
    ELSE SubSeq(set, Len(set) - SEEN_CAP + 1, Len(set))

\* Every match id the collector knows as seen: in memory or in the file.
SeenIds ==
    {seen[i] : i \in 1..Len(seen)}
        \cup (IF seenFile = <<>> THEN {}
              ELSE {seenFile[1][i] : i \in 1..Len(seenFile[1])})

\* The process ends: everything run() held in memory is gone.
Exited ==
    /\ cpc' = "exit"
    /\ seen' = <<>> /\ lines' = <<>> /\ matchIds' = {} /\ platformIdx' = 0

\* Lines 141-146: the seen set is read; a missing file is a first run.
LoadSeen ==
    /\ cpc = "load"
    /\ seen' = IF seenFile = <<>> THEN <<>> ELSE seenFile[1]
    /\ platformIdx' = 1
    /\ cpc' = "seed"
    /\ UNCHANGED <<lines, matchIds, seenFile, outFile, fetchLog, collectorRuns,
                   aggVars, finVars, mrgVars, normVars, pipeVars, retryVars>>

\* Lines 152-177: the ids of the platform's recent matches are gathered;
\* a player whose lookup fails contributes none.
SeedMatchIds(ids) ==
    /\ cpc = "seed"
    /\ matchIds' = ids
    /\ lines' = <<>>
    /\ cpc' = "fetch"
    /\ UNCHANGED <<seen, platformIdx, seenFile, outFile, fetchLog,
                   collectorRuns,
                   aggVars, finVars, mrgVars, normVars, pipeVars, retryVars>>

\* Line 182: a match id of the seen set is left alone.
SkipSeen(mid) ==
    /\ cpc = "fetch" /\ mid \in matchIds
    /\ SetHas(seen, mid)
    /\ matchIds' = matchIds \ {mid}
    /\ UNCHANGED <<seen, lines, platformIdx, cpc, seenFile, outFile, fetchLog,
                   collectorRuns,
                   aggVars, finVars, mrgVars, normVars, pipeVars, retryVars>>

\* Lines 184-217: the match is fetched, filtered, its slices are queued and
\* its id joins the seen set; any exception on the way is swallowed.
FetchMatch(mid, m) ==
    /\ cpc = "fetch" /\ mid \in matchIds
    /\ ~SetHas(seen, mid)
    /\ matchIds' = matchIds \ {mid}
    /\ LET pushed == pushSlices(lines, mid, CollectorPlatforms[platformIdx],
                                m.participants)
           added  == ~m.thrown /\ m.pass /\ ~pushed.thrown
       IN  /\ lines' = IF ~m.thrown /\ m.pass THEN pushed.lines ELSE lines
           /\ seen'  = IF added THEN SetAdd(seen, mid) ELSE seen
           /\ fetchLog' = Append(fetchLog, [id |-> mid, known |-> mid \in SeenIds])
    /\ UNCHANGED <<platformIdx, cpc, seenFile, outFile, collectorRuns,
                   aggVars, finVars, mrgVars, normVars, pipeVars, retryVars>>

\* Lines 223-230: the platform's slices are appended to the staging file.
AppendLines ==
    /\ cpc = "fetch" /\ matchIds = {}
    /\ outFile' = outFile \o lines
    /\ lines' = <<>>
    /\ IF platformIdx < Len(CollectorPlatforms)
         THEN platformIdx' = platformIdx + 1 /\ cpc' = "seed"
         ELSE platformIdx' = platformIdx /\ cpc' = "save"
    /\ UNCHANGED <<seen, matchIds, seenFile, fetchLog, collectorRuns,
                   aggVars, finVars, mrgVars, normVars, pipeVars, retryVars>>

\* Line 224 rejects: run() rejects and lines 241-244 end the process.
AppendFails ==
    /\ cpc = "fetch" /\ matchIds = {} /\ lines # <<>>
    /\ Exited
    /\ UNCHANGED <<seenFile, outFile, fetchLog, collectorRuns,
                   aggVars, finVars, mrgVars, normVars, pipeVars, retryVars>>

\* Lines 232-233: the seen set is written, and run() returns.
SaveSeen ==
    /\ cpc = "save"
    /\ seenFile' = <<keepOf(seen)>>
    /\ Exited
    /\ UNCHANGED <<outFile, fetchLog, collectorRuns,
                   aggVars, finVars, mrgVars, normVars, pipeVars, retryVars>>

\* Line 233 rejects: the file is as it was, lines 241-244 end the process.
SaveFails ==
    /\ cpc = "save"
    /\ Exited
    /\ UNCHANGED <<seenFile, outFile, fetchLog, collectorRuns,
                   aggVars, finVars, mrgVars, normVars, pipeVars, retryVars>>

\* The collector is started again.
StartRun ==
    /\ cpc = "exit" /\ collectorRuns < MaxCollectorRuns
    /\ cpc' = "load"
    /\ collectorRuns' = collectorRuns + 1
    /\ UNCHANGED <<seen, lines, matchIds, platformIdx, seenFile, outFile,
                   fetchLog,
                   aggVars, finVars, mrgVars, normVars, pipeVars, retryVars>>

InitCollector ==
    /\ seen = <<>> /\ lines = <<>> /\ matchIds = {} /\ platformIdx = 0
    /\ cpc = "load" /\ seenFile = <<>> /\ outFile = <<>> /\ fetchLog = <<>>
    /\ collectorRuns = 1
    /\ IdleAgg /\ IdleFin /\ IdleMrg /\ IdleNorm /\ IdlePipe /\ IdleRetry

NextCollector ==
    \/ LoadSeen
    \/ \E ids \in SUBSET PlatformMatchIds(CollectorPlatforms[
                    IF platformIdx = 0 THEN 1 ELSE platformIdx]) :
          SeedMatchIds(ids)
    \/ \E mid \in matchIds : SkipSeen(mid)
    \/ \E mid \in matchIds : \E m \in Payloads(mid) : FetchMatch(mid, m)
    \/ AppendLines
    \/ AppendFails
    \/ SaveSeen
    \/ SaveFails
    \/ StartRun

SpecCollector == InitCollector /\ [][NextCollector]_vars

\* All the slices a well-formed payload of the match yields.
SlicesOfMatch(mid) ==
    LET platform == IF mid \in PlatformMatchIds("NA1") THEN "NA1" ELSE "EUW1"
        ps == ParticipantsOf(mid)
    IN  {collectorSlice(mid, platform, ps[i]) : i \in 1..Len(ps)}

QueuedSlices == {lines[i] : i \in 1..Len(lines)} \cup {outFile[i] : i \in 1..Len(outFile)}

\* No getMatch call was made for an id that was in the seen set, in memory
\* or in the file, when the call was made.
SeenNeverRefetched ==
    \A i \in 1..Len(fetchLog) : ~fetchLog[i].known

\* A match id is in the seen set only with all its slices queued or written.
SeenOnlyAfterQueued ==
    \A mid \in SeenIds : SlicesOfMatch(mid) \subseteq QueuedSlices

\* No slice is in the staging file twice.
AppendedAtMostOnce ==
    \A i, j \in 1..Len(outFile) : i < j => outFile[i] # outFile[j]

\* C19: over any sequence of collector runs sharing the seen state, failed
\* fetches and aborted runs included, a match id of the seen set is never
\* fetched or written again, an id joins the seen set only after all its
\* slices were queued, and the slices of a match are appended at most once.
C19_CollectorDedupe ==
    SeenNeverRefetched /\ SeenOnlyAfterQueued /\ AppendedAtMostOnce

\* A run appended the slices of a match and ended before line 233 wrote the
\* seen set; the next run fetched the match again and appended them again.
C19_Witness ==
    /\ collectorRuns = 2
    /\ seenFile = <<>>
    /\ \E mid \in PlatformMatchIds("NA1") : \A sl \in SlicesOfMatch(mid) :
          \E i, j \in 1..Len(outFile) :
              i < j /\ outFile[i] = sl /\ outFile[j] = sl

---------------------------------------------------------------------------
(* fetchWithRetry (riot.ts:81) against every sequence of responses.        *)

DEFAULT_TRIES == 5

\* The statuses a response can carry, the retry-after headers (in seconds,
\* 0 for a missing one) and the two ends of the jitter.
Statuses   == {200, 204, 304, 400, 401, 403, 404, 418, 429, 503, 599}
RetryAfter == {0, 2}
Jitter     == {0, 249}

\* Response.ok
ok(status) == status >= 200 /\ status < 300

hardFail(status) == status \in {400, 401, 403, 404}

retryable_Always(status) == TRUE

retryable(status) == status = 429 \/ (status >= 500 /\ status < 600)

Min(a, b) == IF a < b THEN a ELSE b

backoff(retryAfter, n) ==
    IF retryAfter > 0 THEN retryAfter * 1000 ELSE Min(15000, 500 * 2 ^ n)

\* One turn of the while loop: the request, and then the return, the throw
\* or the sleep that the response leads to.
Request(status, retryAfter, jitter) ==
    /\ outcome = "running"
    /\ attempt' = attempt + 1
    /\ responses' = Append(responses, status)
    /\ IF ok(status)
         THEN outcome' = "returned" /\ sleeps' = sleeps
         ELSE IF hardFail(status)
         THEN outcome' = "thrown" /\ sleeps' = sleeps
         ELSE IF ~retryable(status) \/ attempt' >= tries
         THEN outcome' = "thrown" /\ sleeps' = sleeps
         ELSE /\ outcome' = "running"
              /\ sleeps' = Append(sleeps, backoff(retryAfter, attempt') + jitter)
    /\ UNCHANGED <<tries, aggVars, finVars, mrgVars, normVars, pipeVars,
                   colVars>>

InitRetry ==
    /\ tries = DEFAULT_TRIES /\ attempt = 0
    /\ responses = <<>> /\ sleeps = <<>> /\ outcome = "running"
    /\ IdleAgg /\ IdleFin /\ IdleMrg /\ IdleNorm /\ IdlePipe /\ IdleCol

NextRetry ==
    \E status \in Statuses, retryAfter \in RetryAfter, jitter \in Jitter :
        Request(status, retryAfter, jitter)

SpecRetry == InitRetry /\ [][NextRetry]_vars

\* The event loop runs the continuation of every settled await.
SpecRetryFair == SpecRetry /\ WF_vars(NextRetry)

\* The call is over exactly when the last response says so, and every
\* response before the last was answered by one sleep and a retry.
RetrySafe ==
    LET n == Len(responses)
    IN  /\ n <= tries
        /\ \A i \in 1..n :
              LET s == responses[i]
                  last == outcome # "running" /\ i = n
              IN  /\ ok(s) => outcome = "returned" /\ i = n
                  /\ (~ok(s) /\ (hardFail(s) \/ ~(s = 429 \/ s \in 500..599)))
                        => outcome = "thrown" /\ i = n
                  /\ ~last => (s = 429 \/ s \in 500..599) /\ i < tries
                  /\ (last /\ ~ok(s)) => outcome = "thrown"
        /\ outcome = "returned" => n >= 1 /\ ok(responses[n])
        /\ outcome = "thrown" => n >= 1 /\ ~ok(responses[n])
        /\ Len(sleeps) = IF outcome = "running" THEN n ELSE n - 1

\* C20: for every sequence of responses fetchWithRetry ends after at most
\* tries requests, returning on the first successful response or throwing;
\* it throws at once, with no sleep, on 400, 401, 403, 404 and any other
\* non-retryable status, and it sleeps and retries only on 429 or 5xx while
\* fewer than tries attempts were made.
C20_BoundedRetry == []RetrySafe /\ <>(outcome # "running")

\* Every attempt was answered by a retryable status: the call slept after
\* each but the last, and threw after the last allowed request.
C20_Witness ==
    /\ outcome = "thrown"
    /\ Len(responses) = tries
    /\ Len(sleeps) = tries - 1
    /\ sleeps[tries - 1] = 8000 + 249

====
